---- MODULE Spec2Model ----
(***************************************************************************)
(* A model of the file-store bot (enhanced-file-store-bot.js): the         *)
(* key-value store, the FileManager registry, the SessionManager, the      *)
(* command / callback dispatcher and the fetch entry point.                *)
(*                                                                         *)
(* Every inbound request is one handler.  A handler runs from one `await`  *)
(* to the next in one step: the steps are the Database operations          *)
(* (get / set / delete) and the outbound TelegramAPI.callMethod calls.     *)
(* The code between two awaits is local and is folded into the step that   *)
(* precedes it.  Handlers of different requests interleave at the awaits.  *)
(***************************************************************************)
EXTENDS Integers, Sequences, FiniteSets, TLC

VARIABLES
    kv,        \* the KV namespace env.FILE_STORE: key -> stored JSON value
    inflight,  \* slot -> the handler (one fetch invocation) running in it
    nextId,    \* how many ids generateSecureId has issued so far, plus one
    now,       \* the wall clock read by Date.now()
    hits,      \* history: id -> trackFileAccess calls completed on a found record
    gone       \* history: ids for which deleteFile has returned true

vars == <<kv, inflight, nextId, now, hits, gone>>

----------------------------------------------------------------------------
(* Bounds of the model *)

MaxFiles == 2      \* ids the dispatcher scenarios may issue
MaxAccess == 2     \* retrievals per record
MaxInFlight == 2   \* concurrently handled requests in the concurrent scenarios
MaxClock == 1      \* ticks of the wall clock
MaxRegFiles == 3   \* ids the registry scenarios may issue
MaxStored == 11    \* records of a namespace that the list scenarios start on

----------------------------------------------------------------------------
(* Configuration: CONFIG *)

ADMIN_IDS == {"a"}
BOT_USERNAME == "YourBotUsername"

\* The senders: one configured administrator and one ordinary user.  A
\* private chat's id is its user's id.
Users == {"a", "u"}

None == <<>>
Some(v) == <<v>>

\* An object without fields: {}
EmptyObj == <<>>

Range(s) == {s[i] : i \in DOMAIN s}
Last(s) == s[Len(s)]

\* a faulty filter: the kept elements come out in reverse
FilterReversed(s, x) ==
    LET kept == SelectSeq(s, LAMBDA y : y # x)
    IN [i \in 1..Len(kept) |-> kept[Len(kept) + 1 - i]]

RECURSIVE SelectSeqNe(_, _)
\* Array.prototype.filter(id => id !== x)
SelectSeqNe(s, x) ==
    IF s = <<>> THEN <<>>
    ELSE IF Head(s) = x THEN SelectSeqNe(Tail(s), x)
         ELSE <<Head(s)>> \o SelectSeqNe(Tail(s), x)

----------------------------------------------------------------------------
(* Utils.generateSecureId: 16 random bytes, hex encoded.  The model draws  *)
(* ids from a pool without replacement: two draws never collide.           *)

IdPool == <<"f1", "f2", "f3", "f4", "f5", "f6", "f7", "f8", "f9", "g1", "g2", "g3", "g4">>

generateSecureId(n) == IdPool[n]

\* An id no draw ever returns (a stale or mistyped link).
StaleId == "zz"

----------------------------------------------------------------------------
(* Message text.  A text is kept by its parts, so that toLowerCase, trim   *)
(* and the command regular expression are computed, not assumed:           *)
(*   pre   leading white space                                             *)
(*   slash TRUE when the first character is "/"                            *)
(*   word  the first token as typed                                        *)
(*   at    an "@botname" suffix of the first token, or ""                  *)
(*   key, val   the argument after white space: key is "post=" or ""       *)
(*   post  trailing white space                                            *)

Txt(slash, word, at, key, val) ==
    [pre |-> "", slash |-> slash, word |-> word, at |-> at,
     key |-> key, val |-> val, post |-> ""]

\* String.prototype.toLowerCase on the words of the input alphabet
Lower(w) ==
    CASE w = "CANCEL" -> "cancel"
      [] w = "Cancel" -> "cancel"
      [] w = "CONFIRM" -> "confirm"
      [] w = "Start" -> "start"
      [] w = "Documents" -> "documents"
      [] OTHER -> w

ArgStr(t) == t.key \o t.val

Body(t, w) ==
    (IF t.slash THEN "/" ELSE "") \o w \o t.at
        \o (IF ArgStr(t) # "" THEN " " \o ArgStr(t) ELSE "")

\* the string itself
Raw(t) == t.pre \o Body(t, t.word) \o t.post

\* text.trim()
Trim(t) == Body(t, t.word)

\* text.toLowerCase(); the arguments of the alphabet are lower case
ToLowerCase(t) == t.pre \o Body(t, Lower(t.word)) \o t.post

\* text.trim().toLowerCase()
TrimLower(t) == Body(t, Lower(t.word))

\* CommandHandler.parseCommand: /^\/([a-zA-Z0-9_]+)(?:@\w+)?(?:\s+(.*))?$/
\* None when the text does not match, else the command and its arguments.
parseCommand(text) ==
    IF text = None THEN None
    ELSE LET t == text[1] IN
         IF t.pre = "" /\ t.slash /\ t.word # ""
         THEN Some([command |-> Lower(t.word), args |-> ArgStr(t),
                    key |-> t.key, val |-> t.val])
         ELSE None

\* a faulty isAdmin: everyone is an administrator
EveryoneAdmin(userId) == TRUE

\* CommandHandler.isAdmin
isAdmin(userId) == userId \in ADMIN_IDS

\* parseInt on the page numbers of the input alphabet; NaN is -1
NaN == -1
ParseInt(s) ==
    CASE s = "0" -> 0
      [] s = "1" -> 1
      [] s = "2" -> 2
      [] s = "3" -> 3
      [] OTHER -> NaN

----------------------------------------------------------------------------
(* Attachments *)

Kinds == {"document", "photo", "video", "audio", "voice", "animation"}

\* A message's attachment: its kind and the platform's file handle.  The kind
\* "sticker" stands for content that is none of the six recognised kinds.
Att(kind, fileId, caption) == [kind |-> kind, file_id |-> fileId, caption |-> caption]

\* CommandHandler.hasAttachment
hasAttachment(att) == att # None /\ att[1].kind \in Kinds

\* CommandHandler.extractFileData: None when no recognised attachment
extractFileData(att) ==
    IF att # None /\ att[1].kind \in Kinds
    THEN Some([file_id |-> att[1].file_id, file_type |-> att[1].kind,
               caption |-> att[1].caption])
    ELSE None

\* message_id of the message that carries an attachment
MessageIdOf(att) == IF att = None THEN 0 ELSE IF att[1].kind = "document" THEN 11 ELSE 12

----------------------------------------------------------------------------
(* Database: get / set / delete over the namespace.  A value is stored as  *)
(* JSON text and parsed back; for the objects of this program (no          *)
(* undefined fields, no functions) that round trip returns an equal value. *)

FileKey(id) == <<"file:", id>>
UserFilesKey(userId) == <<"user:files:", userId>>
CategoryKey(category) == <<"category:", category>>

\* a faulty key: every user's session is the one document
SessionKeyShared(userId) == <<"session:", "a">>

SessionKey(userId) == <<"session:", userId>>

\* Database.get: the stored value, or null (None)
DbGet(store, key) == IF key \in DOMAIN store THEN Some(store[key]) ELSE None

\* a faulty set: a value already stored is kept
DbSetOnce(store, key, value) ==
    [k \in DOMAIN store \cup {key} |-> IF k \in DOMAIN store THEN store[k] ELSE value]

\* Database.set
DbSet(store, key, value) ==
    [k \in DOMAIN store \cup {key} |-> IF k = key THEN value ELSE store[k]]

\* Database.delete
DbDelete(store, key) == [k \in DOMAIN store \ {key} |-> store[k]]

\* `await db.get(key) || []`
OrEmpty(v) == IF v = None THEN <<>> ELSE v[1]

----------------------------------------------------------------------------
(* SessionManager *)

\* the session object getSession creates when none is stored
NewSession(userId, t) ==
    [userId |-> userId, state |-> "idle", data |-> EmptyObj,
     createdAt |-> t, lastActive |-> t]

\* { ...a, ...b }: every key of b overrides the key of a
Spread(a, b) ==
    [k \in DOMAIN a \cup DOMAIN b |-> IF k \in DOMAIN b THEN b[k] ELSE a[k]]

\* a faulty updateSession: the new data is merged into the old
updateSessionMerging(session, updates, t) ==
    [userId |-> session.userId, state |-> updates.state,
     data |-> [k \in DOMAIN session.data \cup DOMAIN updates.data |->
                  IF k \in DOMAIN updates.data THEN updates.data[k] ELSE session.data[k]],
     createdAt |-> session.createdAt, lastActive |-> t]

\* SessionManager.updateSession: the object it writes
updateSession(session, updates, t) ==
    Spread(Spread(session, updates), [lastActive |-> t])

\* a faulty setState: the state is changed and the data left as it was
setStateOnly(state, data) == [state |-> state]

\* SessionManager.setState: the updates it hands to updateSession
setState(state, data) == [state |-> state, data |-> Spread(EmptyObj, data)]

----------------------------------------------------------------------------
(* FileManager: the values it computes *)

\* a faulty fileObject: the counter starts at 1
FileObjectCounted(fileId, fileData, userId, category, t) ==
    [id |-> fileId, file_id |-> fileData.file_id, file_type |-> fileData.file_type,
     caption |-> fileData.caption, savedBy |-> userId, category |-> category,
     createdAt |-> t, accessCount |-> 1, lastAccessed |-> <<>>]

\* FileManager.saveFile: the fileObject it stores
FileObject(fileId, fileData, userId, category, t) ==
    Spread([id |-> fileId],
        Spread(fileData,
            [savedBy |-> userId, category |-> category, createdAt |-> t,
             accessCount |-> 0, lastAccessed |-> None]))

\* a faulty write-back: the caption is dropped
AccessedUncaptioned(file, t) ==
    [file EXCEPT !.accessCount = file.accessCount + 1, !.lastAccessed = Some(t),
                 !.caption = ""]

\* FileManager.trackFileAccess: the record it writes back
Accessed(file, t) ==
    [file EXCEPT !.accessCount = file.accessCount + 1, !.lastAccessed = Some(t)]

\* a faulty permission check: anyone may delete
AnyoneMayDelete(userId, file) == TRUE

\* FileManager.deleteFile: the permission check
MayDelete(userId, file) == userId \in ADMIN_IDS \/ file.savedBy = userId

\* FileManager.getFile
getFile(store, fileId) == DbGet(store, FileKey(fileId))

\* FileManager.getUserFiles / getFilesByCategory run against one store: the
\* records of the ids of the index list at `key`, the missing ones left out
Listing(store, key) ==
    LET fileIds == OrEmpty(DbGet(store, key))
        files == [i \in DOMAIN fileIds |-> getFile(store, fileIds[i])]
        kept == SelectSeq(files, LAMBDA f : f # None)
    IN [i \in DOMAIN kept |-> kept[i][1]]

\* a faulty link: the payload lacks "post="
LinkWithoutKey(fileId) == "https://t.me/" \o "YourBotUsername" \o "?start=" \o fileId

\* the share link built after a save and by the share button
ShareLink(fileId) == "https://t.me/" \o BOT_USERNAME \o "?start=post=" \o fileId

----------------------------------------------------------------------------
(* Outbound calls: TelegramAPI.  A call is kept by its method, its target  *)
(* (a chat id, or the callback query id), the opening words of its text,   *)
(* the file handle and caption it forwards, the link it quotes and the     *)
(* callback_data of its buttons.                                           *)

NoCall ==
    [m |-> "", to |-> "", text |-> "", file |-> "", cap |-> "", link |-> "",
     items |-> <<>>, n0 |-> 0, kb |-> <<>>]

sendMessage(chatId, text) == [NoCall EXCEPT !.m = "sendMessage", !.to = chatId, !.text = text]

editMessageText(chatId, text) == [NoCall EXCEPT !.m = "editMessageText", !.to = chatId, !.text = text]

answerCallbackQuery(queryId, text) ==
    [NoCall EXCEPT !.m = "answerCallbackQuery", !.to = queryId, !.text = text]

\* sendDocument / sendPhoto / sendVideo / sendAudio, callMethod('sendVoice' | 'sendAnimation')
sendFile(method, chatId, fileId, caption) ==
    [NoCall EXCEPT !.m = method, !.to = chatId, !.file = fileId, !.cap = caption]

WithKb(call, kb) == [call EXCEPT !.kb = kb]
WithLink(call, link) == [call EXCEPT !.link = link]

\* a faulty switch: every recognised kind is sent as a document
SendAsDocument(fileType) == IF fileType = "sticker" THEN "sendMessage" ELSE "sendDocument"

\* CommandHandler.handleStart: the send operation chosen by file_type
SendMethodOf(fileType) ==
    CASE fileType = "document" -> "sendDocument"
      [] fileType = "photo" -> "sendPhoto"
      [] fileType = "video" -> "sendVideo"
      [] fileType = "audio" -> "sendAudio"
      [] fileType = "voice" -> "sendVoice"
      [] fileType = "animation" -> "sendAnimation"
      [] OTHER -> "sendMessage"

CategoryKeyboard ==
    <<"category:documents", "category:photos", "category:videos",
      "category:audio", "category:cancel">>

----------------------------------------------------------------------------
(* Requests.  An update is a message, a callback query, or neither.        *)
(*   from   the sender's id, "" when the field is missing                  *)
(*   text   None or Some(text)                                             *)
(*   att    None or Some(attachment) carried by the message itself         *)
(*   reply  None, or Some(att) where att is the attachment (or None) of    *)
(*          the message replied to                                         *)
(*   data   None or Some(callback_data split at ":")                       *)
(*   msg    whether the callback query carries its message                 *)
(*   call   a direct invocation of a FileManager / SessionManager method   *)

NoEvent ==
    [type |-> "", from |-> "", text |-> None, att |-> None, reply |-> None,
     data |-> None, msg |-> FALSE, qid |-> "", call |-> None]

Message(from, text, att, reply) ==
    [NoEvent EXCEPT !.type = "message", !.from = from, !.text = text,
                    !.att = att, !.reply = reply]

CallbackQuery(from, data, msg) ==
    [NoEvent EXCEPT !.type = "callback", !.from = from, !.data = data,
                    !.msg = msg, !.qid = "q1"]

\* a request that is not a POST, a body that is not JSON, the JSON body
\* `null`, an update that is neither a message nor a callback query
Request(type) == [NoEvent EXCEPT !.type = type]

\* a method invoked directly with the given arguments
Call(fn, args) == [NoEvent EXCEPT !.type = "call", !.call = Some([fn |-> fn, args |-> args])]

----------------------------------------------------------------------------
(* A handler: one invocation of fetch.                                     *)
(*   pc      the awaits still to run, in order; each names its operation   *)
(*   resp    "" while running, then the outcome of fetch                   *)
(* and the local variables of the functions on its stack.                  *)

F(op) == [op |-> op, call |-> NoCall]
Tg(call) == [op |-> "tg", call |-> call]

NoState == [state |-> "", data |-> EmptyObj]

NewHandler(e) ==
    [ev |-> e, pc |-> <<>>, resp |-> "", calls |-> <<>>,
     uid |-> e.from,          \* userId = String(from.id)
     session |-> None,        \* processMessage / handleCategoryCallback: session
     usess |-> None,          \* updateSession: session
     st |-> NoState,          \* setState: its arguments
     sv |-> None,             \* saveFile: its arguments
     dl |-> None,             \* deleteFile: its arguments
     tid |-> "",              \* trackFileAccess: fileId
     fid |-> "",              \* the id a handler looks up with getFile
     file |-> None,           \* the record that lookup returned
     tfile |-> None,          \* trackFileAccess: file
     dfile |-> None,          \* deleteFile: file
     lkey |-> <<>>,           \* getUserFiles / getFilesByCategory: the index key
     lst |-> <<>>,            \* the index list last read
     todo |-> <<>>,           \* ids whose records are still to be fetched
     acc |-> <<>>,            \* records fetched so far (None for a missing one)
     page |-> 0,              \* the page to render
     newId |-> "",            \* saveFile: fileId, once generated
     ret |-> "",              \* deleteFile: "true" / "false", once returned
     stats |-> None,          \* trackAction: stats
     ts |-> 0,                \* Date.now() as read by the code that ran last
     lost |-> FALSE,          \* history: trackAction caught an error of the database
     before |-> <<>>]         \* history: the namespace when the request arrived, kept
                              \* for a request that arrived while no other was handled

Free == [NewHandler(NoEvent) EXCEPT !.resp = "free"]

Running(h) == h.resp = ""
Finished(h) == h.resp \notin {"", "free"}

\* an exception that no try / catch on the stack awaits: fetch rejects
Throw(h) == [h EXCEPT !.pc = <<>>, !.resp = "exception"]

Pop(h) == [h EXCEPT !.pc = Tail(@)]

\* tail call: the rest of the handler is prog
Go(h, prog) == [h EXCEPT !.pc = prog]

Reply(h, call) == Go(h, <<Tg(call)>>)

----------------------------------------------------------------------------
(* The awaits of the SessionManager and FileManager methods, in order *)

\* SessionManager.setState -> updateSession -> getSession, db.set
SetStateProg == <<F("us_get"), F("us_set")>>

\* FileManager.saveFile: set file, get / set owner index, get / set category index
SaveFileProg == <<F("sf_put"), F("sf_getU"), F("sf_setU"), F("sf_getC"), F("sf_setC")>>

\* FileManager.trackFileAccess: getFile, then db.set when found
TrackProg == <<F("ta_get")>>

\* FileManager.deleteFile: getFile; the rest follows the permission check
DeleteFileProg == <<F("df_get")>>

DeleteFileRest == <<F("df_del"), F("df_getU"), F("df_setU"), F("df_getC"), F("df_setC")>>

\* FileManager.getUserFiles / getFilesByCategory: the index, then every record
ListProg == <<F("uf_list")>>

----------------------------------------------------------------------------
(* CommandHandler: the command handlers.  Each takes the handler at the    *)
(* point of the call and gives it back at its first await.                 *)

Idle == setState("idle", EmptyObj)

\* CommandHandler.handleCancel
handleCancel(h) ==
    [h EXCEPT !.st = Idle,
              !.pc = SetStateProg \o <<Tg(sendMessage(h.uid, "Current operation canceled."))>>]

\* a faulty handleFileCategoryInput: the file is saved and the session left as it was
handleFileCategoryInputKeeping(h) ==
    IF h.ev.text = None THEN Throw(h)
    ELSE [h EXCEPT !.sv = Some([fileData |-> h.session[1].data.fileData,
                                userId |-> h.uid, category |-> Trim(h.ev.text[1])]),
                   !.pc = SaveFileProg \o <<F("tg_saved")>>]

\* CommandHandler.handleFileCategoryInput
handleFileCategoryInput(h) ==
    IF h.ev.text = None THEN Throw(h)      \* message.text.trim() of undefined
    ELSE LET category == Trim(h.ev.text[1]) IN
         IF TrimLower(h.ev.text[1]) = "cancel"
         THEN [h EXCEPT !.st = Idle,
                        !.pc = SetStateProg \o <<Tg(sendMessage(h.uid, "File saving canceled."))>>]
         ELSE [h EXCEPT !.sv = Some([fileData |-> h.session[1].data.fileData,
                                     userId |-> h.uid, category |-> category]),
                        !.st = Idle,
                        !.pc = SaveFileProg \o SetStateProg \o <<F("tg_saved")>>]

\* a faulty handleDeleteConfirmation: the text is not looked at
handleDeleteAnyText(h) ==
    IF h.ev.text = None THEN Throw(h)
    ELSE [h EXCEPT !.st = Idle,
                   !.dl = Some([fileId |-> h.session[1].data.fileId, userId |-> h.uid]),
                   !.pc = SetStateProg \o DeleteFileProg \o <<F("tg_deleted")>>]

\* CommandHandler.handleDeleteConfirmation
handleDeleteConfirmation(h) ==
    IF h.ev.text = None THEN Throw(h)      \* message.text.trim() of undefined
    ELSE LET text == TrimLower(h.ev.text[1])
             fileId == h.session[1].data.fileId
         IN IF text = "confirm"
            THEN [h EXCEPT !.st = Idle,
                           !.dl = Some([fileId |-> fileId, userId |-> h.uid]),
                           !.pc = SetStateProg \o DeleteFileProg \o <<F("tg_deleted")>>]
            ELSE [h EXCEPT !.st = Idle,
                           !.pc = SetStateProg \o <<Tg(sendMessage(h.uid, "File deletion canceled."))>>]

WelcomeKeyboard == <<"file:list:1", "stats:view", "help:view">>

\* CommandHandler.handleStart: up to the getFile of the post id
handleStart(h, cmd) ==
    IF cmd.key = "post=" /\ cmd.val # ""       \* args?.match(/post=(\S+)/)
    THEN [h EXCEPT !.fid = cmd.val, !.pc = <<F("start_get")>>]
    ELSE Reply(h, WithKb(sendMessage(h.uid, "Welcome to FileStore Bot"), WelcomeKeyboard))

\* CommandHandler.handleStart: after getFile returned v
handleStartFound(h, v) ==
    IF v = None
    THEN Reply(h, sendMessage(h.uid, "The requested file was not found or has been deleted."))
    ELSE [h EXCEPT !.file = v, !.tid = h.fid, !.pc = TrackProg \o <<F("tg_send_file")>>]

\* CommandHandler.handleStart: the send chosen by file_type
handleStartSend(h) ==
    LET fileData == h.file[1] IN
    IF fileData.file_type \in Kinds
    THEN sendFile(SendMethodOf(fileData.file_type), h.uid, fileData.file_id, fileData.caption)
    ELSE sendMessage(h.uid, "Unsupported file type.")

\* CommandHandler.handleHelp
handleHelp(h) == Reply(h, sendMessage(h.uid, "Available Commands"))

\* a faulty handleSave: the sender is not checked against ADMIN_IDS
handleSaveUnguarded(h) ==
    IF h.ev.reply = None
    THEN Reply(h, sendMessage(h.uid, "Please reply to a file message with /save to store it."))
    ELSE LET fileData == extractFileData(h.ev.reply[1]) IN
         IF fileData = None
         THEN Reply(h, sendMessage(h.uid, "No valid file found in the replied message."))
         ELSE [h EXCEPT !.st = setState("awaiting_file_category",
                                  [messageId |-> MessageIdOf(h.ev.reply[1]),
                                   fileData |-> fileData[1]]),
                        !.pc = SetStateProg \o
                               <<Tg(WithKb(sendMessage(h.uid, "Please select a category"),
                                           CategoryKeyboard))>>]

\* CommandHandler.handleSave
handleSave(h) ==
    IF ~isAdmin(h.uid)
    THEN Reply(h, sendMessage(h.uid, "Unauthorized. Only admins can save files."))
    ELSE IF h.ev.reply = None
    THEN Reply(h, sendMessage(h.uid, "Please reply to a file message with /save to store it."))
    ELSE LET fileData == extractFileData(h.ev.reply[1]) IN
         IF fileData = None
         THEN Reply(h, sendMessage(h.uid, "No valid file found in the replied message."))
         ELSE [h EXCEPT !.st = setState("awaiting_file_category",
                                  [messageId |-> MessageIdOf(h.ev.reply[1]),
                                   fileData |-> fileData[1]]),
                        !.pc = SetStateProg \o
                               <<Tg(WithKb(sendMessage(h.uid, "Please select a category"),
                                           CategoryKeyboard))>>]

\* a faulty promptToSaveFile: the category is asked for and nothing is stashed
promptToSaveFileForgetting(h) ==
    Reply(h, WithKb(sendMessage(h.uid, "I noticed you sent a file."), CategoryKeyboard))

\* CommandHandler.promptToSaveFile
promptToSaveFile(h) ==
    LET fileData == extractFileData(h.ev.att) IN
    IF fileData = None
    THEN Reply(h, sendMessage(h.uid, "No valid file found in the message."))
    ELSE [h EXCEPT !.st = setState("awaiting_file_category",
                             [messageId |-> MessageIdOf(h.ev.att),
                              fileData |-> fileData[1]]),
                   !.pc = SetStateProg \o
                          <<Tg(WithKb(sendMessage(h.uid, "I noticed you sent a file."),
                                      CategoryKeyboard))>>]

\* CommandHandler.handleFiles: getUserFiles, then the first page
handleFiles(h) ==
    [h EXCEPT !.lkey = UserFilesKey(h.uid), !.page = 1,
              !.pc = ListProg \o <<F("tg_files")>>]

\* a faulty handleDelete: the confirmation is asked for without looking the id up
handleDeleteBlind(h, cmd) ==
    [h EXCEPT !.fid = cmd.args,
              !.st = setState("awaiting_delete_confirm", [fileId |-> cmd.args]),
              !.pc = SetStateProg \o
                     <<Tg(sendMessage(h.uid, "Are you sure you want to delete this file?"))>>]

\* CommandHandler.handleDelete: up to the getFile of the id
handleDelete(h, cmd) ==
    IF cmd.args = ""
    THEN Reply(h, sendMessage(h.uid, "Please specify a file ID to delete"))
    ELSE [h EXCEPT !.fid = cmd.args, !.pc = <<F("del_get")>>]

\* a faulty handleDelete: the confirmation is asked for whatever getFile returned
handleDeleteUnchecked(h, v) ==
    [h EXCEPT !.st = setState("awaiting_delete_confirm", [fileId |-> h.fid]),
              !.pc = SetStateProg \o
                     <<Tg(sendMessage(h.uid, "Are you sure you want to delete this file?"))>>]

\* CommandHandler.handleDelete: after getFile returned v
handleDeleteFound(h, v) ==
    IF v = None THEN Reply(h, sendMessage(h.uid, "File not found."))
    ELSE IF ~isAdmin(h.uid) /\ v[1].savedBy # h.uid
    THEN Reply(h, sendMessage(h.uid, "You don't have permission to delete this file."))
    ELSE [h EXCEPT !.st = setState("awaiting_delete_confirm", [fileId |-> h.fid]),
                   !.pc = SetStateProg \o
                          <<Tg(sendMessage(h.uid, "Are you sure you want to delete this file?"))>>]

StatsKey == <<"bot:stats", "">>

\* Analytics.trackAction: the stats object it writes.  The model keeps who has
\* been seen and which actions were counted, not the counters.
NoStats == [users |-> {}, actions |-> {}]
trackAction(stats, userId, action) ==
    [users |-> stats.users \cup {userId}, actions |-> stats.actions \cup {action}]

TrackActionProg == <<F("tr_get"), F("tr_set")>>

\* CommandHandler.handleStats: a regular user gets getUserFiles and getSession,
\* an admin gets analytics.getStats, db.listKeys and up to ten db.get
handleStats(h) ==
    IF ~isAdmin(h.uid)
    THEN [h EXCEPT !.lkey = UserFilesKey(h.uid),
                   !.pc = ListProg \o <<F("gs_get"), F("tg_stats_user")>>]
    ELSE Go(h, <<F("an_get"), F("st_keys"), F("tg_stats")>>)

\* String.prototype.includes on the lower-cased texts of the input alphabet
Includes(s, sub) ==
    <<s, sub>> \in {<<"hello", "hello">>, <<"help me", "help">>, <<"show files", "show files">>,
                    <<"statistics", "stats">>, <<"statistics", "statistics">>}

\* CommandHandler.processNaturalLanguage
processNaturalLanguage(h) ==
    IF h.ev.text = None THEN Go(h, <<>>)     \* return null
    ELSE LET lowerText == ToLowerCase(h.ev.text[1]) IN
         IF Includes(lowerText, "help") \/ Includes(lowerText, "how to") THEN handleHelp(h)
         ELSE IF Includes(lowerText, "my files") \/ Includes(lowerText, "show files")
         THEN handleFiles(h)
         ELSE IF Includes(lowerText, "stats") \/ Includes(lowerText, "statistics")
         THEN handleStats(h)
         ELSE IF Includes(lowerText, "hello") \/ Includes(lowerText, "hi")
                 \/ Includes(lowerText, "hey")
         THEN Reply(h, sendMessage(h.uid, "Hello! I'm a file storage bot."))
         ELSE Reply(h, sendMessage(h.uid, "I'm not sure what you're asking."))

\* this.commands
Commands == {"start", "help", "save", "files", "delete", "stats", "cancel"}

\* CommandHandler.processMessage, from the session on
processMessage(h) ==
    LET session == h.session[1]
        text == IF h.ev.text = None THEN "" ELSE ToLowerCase(h.ev.text[1])
        commandData == parseCommand(h.ev.text)
    IN IF session.state # "idle" /\ text = "/cancel" THEN handleCancel(h)
       ELSE IF session.state = "awaiting_file_category" THEN handleFileCategoryInput(h)
       ELSE IF session.state = "awaiting_delete_confirm" THEN handleDeleteConfirmation(h)
       ELSE IF commandData # None
       THEN LET cmd == commandData[1] IN
            CASE cmd.command = "start" -> handleStart(h, cmd)
              [] cmd.command = "help" -> handleHelp(h)
              [] cmd.command = "save" -> handleSave(h)
              [] cmd.command = "files" -> handleFiles(h)
              [] cmd.command = "delete" -> handleDelete(h, cmd)
              [] cmd.command = "stats" -> handleStats(h)
              [] cmd.command = "cancel" -> handleCancel(h)
              \* this.commands[command] is looked up along the prototype chain:
              \* Object(message, args) returns message, Object.prototype is no function
              [] cmd.command = "constructor" -> Go(h, <<>>)
              [] cmd.command = "__proto__" -> Throw(h)
              [] OTHER -> Reply(h, sendMessage(h.uid, "Unrecognized command"))
       ELSE IF hasAttachment(h.ev.att) /\ isAdmin(h.uid) THEN promptToSaveFile(h)
       ELSE processNaturalLanguage(h)

----------------------------------------------------------------------------
(* CommandHandler: the callback handlers *)

\* params[i] of a JavaScript array (0-based): undefined past the end
Param(params, i) == IF i + 1 <= Len(params) THEN params[i + 1] ELSE "undefined"

Answer(h) == Tg(answerCallbackQuery(h.ev.qid, ""))

\* CommandHandler.handleDeleteCallback: up to the getFile of the id
handleDeleteCallback(h, params) ==
    IF ~h.ev.msg THEN Throw(h)             \* query.message.chat of undefined
    ELSE [h EXCEPT !.fid = Param(params, 0), !.pc = <<Answer(h), F("cbdel_get")>>]

\* CommandHandler.handleDeleteCallback: after getFile returned v
handleDeleteCallbackFound(h, v) ==
    IF v = None THEN Reply(h, editMessageText(h.uid, "This file no longer exists."))
    ELSE IF ~isAdmin(h.uid) /\ v[1].savedBy # h.uid
    THEN Reply(h, sendMessage(h.uid, "You don't have permission to delete this file."))
    ELSE Reply(h, WithKb(editMessageText(h.uid, "Are you sure you want to delete this file?"),
                         <<"confirm:delete:" \o h.fid, "confirm:cancel">>))

\* CommandHandler.handleFileCallback
handleFileCallback(h, params) ==
    IF ~h.ev.msg THEN Throw(h)             \* query.message.chat of undefined
    ELSE LET action == Param(params, 0)
             fileId == Param(params, 1)
         IN CASE action = "share" ->
                   [h EXCEPT !.fid = fileId, !.pc = <<Answer(h), F("share_get")>>]
              [] action = "delete" ->
                   LET d == handleDeleteCallback(h, <<fileId>>) IN
                   [d EXCEPT !.pc = <<Answer(h)>> \o d.pc]
              [] action = "list" ->
                   LET n == ParseInt(Param(params, 1)) IN
                   [h EXCEPT !.page = IF n = NaN \/ n = 0 THEN 1 ELSE n,   \* parseInt(..) || 1
                             !.lkey = UserFilesKey(h.uid),
                             !.pc = <<Answer(h)>> \o ListProg \o <<F("tg_edit_list")>>]
              [] OTHER ->
                   Go(h, <<Answer(h), Tg(answerCallbackQuery(h.ev.qid, "Unknown file action."))>>)

\* CommandHandler.handleFileCallback, case 'share': after getFile returned v
handleShareFound(h, v) ==
    IF v = None THEN Reply(h, editMessageText(h.uid, "This file no longer exists."))
    ELSE Reply(h, WithLink(sendMessage(h.uid, "File Sharing Link"), ShareLink(h.fid)))

\* CommandHandler.handlePageCallback
handlePageCallback(h, params) ==
    LET listType == Param(params, 0)
        page == ParseInt(Param(params, 1))
    IN IF page = NaN \/ page < 1
       THEN Reply(h, answerCallbackQuery(h.ev.qid, "Invalid page number."))
       ELSE IF listType = "files"
       THEN IF ~h.ev.msg THEN Go(h, <<Answer(h), F("throw")>>)
            ELSE LET l == handleFileCallback(h, <<"list", ToString(page)>>) IN
                 [l EXCEPT !.pc = <<Answer(h)>> \o l.pc]
       ELSE Go(h, <<Answer(h), Tg(answerCallbackQuery(h.ev.qid, "Unknown list type."))>>)

\* CommandHandler.handleCategoryCallback: up to getSession
handleCategoryCallback(h) ==
    IF ~h.ev.msg THEN Throw(h)             \* query.message.chat of undefined
    ELSE Go(h, <<F("gs_get"), F("cat_route")>>)

\* CommandHandler.handleCategoryCallback, from the session on
handleCategoryChosen(h) ==
    LET params == Tail(h.ev.data[1])
        \* saveFile(fileData, userId, category = "general")
        category == IF params = <<>> THEN "general" ELSE params[1]
    IN IF h.session[1].state # "awaiting_file_category"
       THEN Reply(h, answerCallbackQuery(h.ev.qid, "This action is no longer valid."))
       ELSE IF params # <<>> /\ params[1] = "cancel"
       THEN [h EXCEPT !.st = Idle,
                      !.pc = <<Answer(h)>> \o SetStateProg
                             \o <<Tg(editMessageText(h.uid, "File saving canceled."))>>]
       ELSE [h EXCEPT !.sv = Some([fileData |-> h.session[1].data.fileData,
                                   userId |-> h.uid, category |-> category]),
                      !.st = Idle,
                      !.pc = <<Answer(h)>> \o SaveFileProg \o SetStateProg
                             \o <<F("tg_edit_saved")>>]

\* CommandHandler.handleConfirmCallback
handleConfirmCallback(h, params) ==
    IF ~h.ev.msg THEN Throw(h)             \* query.message.chat of undefined
    ELSE LET action == Param(params, 0) IN
         CASE action = "delete" ->
                [h EXCEPT !.dl = Some([fileId |-> Param(params, 1), userId |-> h.uid]),
                          !.pc = <<Answer(h)>> \o DeleteFileProg \o <<F("tg_edit_deleted")>>]
           [] action = "cancel" ->
                Go(h, <<Answer(h), Tg(editMessageText(h.uid, "Action canceled."))>>)
           [] OTHER ->
                Go(h, <<Answer(h), Tg(editMessageText(h.uid, "Unknown confirmation action."))>>)

\* this.callbackHandlers
CallbackHandlers == {"file", "page", "category", "delete", "confirm"}

\* CommandHandler.processCallbackQuery, from the try block on
processCallbackQuery(h) ==
    IF h.ev.data = None                    \* data.split of undefined, caught
    THEN Reply(h, answerCallbackQuery(h.ev.qid, "An error occurred while processing your request."))
    ELSE LET action == Head(h.ev.data[1])
             params == Tail(h.ev.data[1])
         IN CASE action = "file" -> handleFileCallback(h, params)
              [] action = "page" -> handlePageCallback(h, params)
              [] action = "category" -> handleCategoryCallback(h)
              [] action = "delete" -> handleDeleteCallback(h, params)
              [] action = "confirm" -> handleConfirmCallback(h, params)
              [] OTHER -> Reply(h, answerCallbackQuery(h.ev.qid, "Sorry, I couldn't process this action."))

----------------------------------------------------------------------------
(* Lists: the page of /files and the ranking of /stats *)

PageSize == 5
StatsLimit == 10
TopCount == 5

Min(a, b) == IF a < b THEN a ELSE b

RECURSIVE NonNull(_)
\* files.filter(file => file !== null)
NonNull(acc) ==
    IF acc = <<>> THEN <<>>
    ELSE IF Head(acc) = None THEN NonNull(Tail(acc))
         ELSE <<Head(acc)[1]>> \o NonNull(Tail(acc))

Ids(files) == [i \in DOMAIN files |-> files[i].id]

\* a faulty page: the "next" button is also on the last page
FileListPageAlwaysNext(call, files, page) ==
    LET totalPages == (Len(files) + 5 - 1) \div 5
        startIdx == (page - 1) * 5
        endIdx == IF startIdx + 5 < Len(files) THEN startIdx + 5 ELSE Len(files)
        pageFiles == SubSeq(files, startIdx + 1, endIdx)
        rows == [i \in 1..(2 * Len(pageFiles)) |->
                    IF i % 2 = 1 THEN "file:share:" \o pageFiles[(i + 1) \div 2].id
                    ELSE "file:delete:" \o pageFiles[i \div 2].id]
        prev == IF page > 1 THEN <<"page:files:" \o ToString(page - 1)>> ELSE <<>>
        next == IF page <= totalPages THEN <<"page:files:" \o ToString(page + 1)>> ELSE <<>>
    IN [call EXCEPT !.items = [i \in DOMAIN pageFiles |-> pageFiles[i].id],
                    !.n0 = startIdx + 1, !.kb = rows \o prev \o next]

\* CommandHandler.sendFileListPage and the 'list' case of handleFileCallback:
\* the items of the page and its buttons, put on `call`
FileListPage(call, files, page) ==
    LET totalPages == (Len(files) + PageSize - 1) \div PageSize
        startIdx == (page - 1) * PageSize
        endIdx == Min(startIdx + PageSize, Len(files))
        pageFiles == SubSeq(files, startIdx + 1, endIdx)
        rows == [i \in 1..(2 * Len(pageFiles)) |->
                    IF i % 2 = 1 THEN "file:share:" \o pageFiles[(i + 1) \div 2].id
                    ELSE "file:delete:" \o pageFiles[i \div 2].id]
        prev == IF page > 1 THEN <<"page:files:" \o ToString(page - 1)>> ELSE <<>>
        next == IF page < totalPages THEN <<"page:files:" \o ToString(page + 1)>> ELSE <<>>
    IN [call EXCEPT !.items = Ids(pageFiles), !.n0 = startIdx + 1,
                    !.kb = rows \o prev \o next]

RECURSIVE InsertDesc(_, _)
\* where a stable descending sort puts f among the already sorted s
InsertDesc(s, f) ==
    IF s = <<>> THEN <<f>>
    ELSE IF Head(s).accessCount >= f.accessCount THEN <<Head(s)>> \o InsertDesc(Tail(s), f)
         ELSE <<f>> \o s

RECURSIVE SortDesc(_)
\* popularFiles.sort((a, b) => b.accessCount - a.accessCount), a stable sort
SortDesc(s) == IF s = <<>> THEN <<>> ELSE InsertDesc(SortDesc(SubSeq(s, 1, Len(s) - 1)), Last(s))

RECURSIVE Popular(_)
\* the records with a truthy accessCount among those fetched
Popular(acc) ==
    IF acc = <<>> THEN <<>>
    ELSE IF Head(acc) # None /\ Head(acc)[1].accessCount # 0
         THEN <<Head(acc)[1]>> \o Popular(Tail(acc))
         ELSE Popular(Tail(acc))

\* CommandHandler.handleStats: the popular files it lists
TopFiles(acc) == LET sorted == SortDesc(Popular(acc)) IN SubSeq(sorted, 1, Min(TopCount, Len(sorted)))

----------------------------------------------------------------------------
(* The calls whose content depends on what the handler has read or written *)

DynCall(h, op) ==
    CASE op = "tg_saved" ->
           WithKb(WithLink(sendMessage(h.uid, "File Saved Successfully!"), ShareLink(h.newId)),
                  <<"file:share:" \o h.newId>>)
      [] op = "tg_edit_saved" ->
           WithKb(WithLink(editMessageText(h.uid, "File Saved Successfully!"), ShareLink(h.newId)),
                  <<"file:share:" \o h.newId>>)
      [] op = "tg_send_file" -> handleStartSend(h)
      [] op = "tg_deleted" ->
           IF h.ret = "true" THEN sendMessage(h.uid, "File deleted successfully.")
           ELSE sendMessage(h.uid, "Failed to delete the file.")
      [] op = "tg_edit_deleted" ->
           IF h.ret = "true" THEN editMessageText(h.uid, "File deleted successfully.")
           ELSE editMessageText(h.uid, "Failed to delete the file.")
      [] op = "tg_files" ->
           IF NonNull(h.acc) = <<>>
           THEN sendMessage(h.uid, "You don't have any saved files yet.")
           ELSE FileListPage(sendMessage(h.uid, "Your Files"), NonNull(h.acc), 1)
      [] op = "tg_edit_list" ->
           IF NonNull(h.acc) = <<>>
           THEN editMessageText(h.uid, "You don't have any saved files.")
           ELSE FileListPage(editMessageText(h.uid, "Your Files"), NonNull(h.acc), h.page)
      [] op = "tg_stats_user" ->
           [sendMessage(h.uid, "Your Statistics") EXCEPT !.n0 = Len(NonNull(h.acc))]
      [] op = "tg_stats" ->
           [sendMessage(h.uid, "Bot Statistics") EXCEPT !.items = Ids(TopFiles(h.acc))]

TgOps == {"tg", "tg_saved", "tg_edit_saved", "tg_send_file", "tg_deleted", "tg_edit_deleted",
          "tg_files", "tg_edit_list", "tg_stats_user", "tg_stats"}

CallOf(h) == IF Head(h.pc).op = "tg" THEN Head(h.pc).call ELSE DynCall(h, Head(h.pc).op)

----------------------------------------------------------------------------
(* The awaits: which key each reads or writes, what it writes, and how the *)
(* handler goes on from the result.                                        *)

GetOps == {"tr_get", "gs_get", "us_get", "start_get", "ta_get", "df_get", "df_getU", "df_getC",
           "sf_getU", "sf_getC", "del_get", "cbdel_get", "share_get", "gf_get",
           "uf_list", "uf_file", "an_get"}
SetOps == {"tr_set", "gs_new", "us_new", "us_set", "sf_put", "sf_setU", "sf_setC", "ta_set",
           "df_setU", "df_setC"}
DeleteOps == {"df_del"}
ListOps == {"st_keys"}
LocalOps == {"route", "cb_route", "cat_route", "throw"}

Op(h) == Head(h.pc).op

KeyOf(h) ==
    LET op == Op(h) IN
    CASE op \in {"gs_get", "gs_new", "us_get", "us_new", "us_set"} -> SessionKey(h.uid)
      [] op \in {"start_get", "del_get", "cbdel_get", "share_get", "gf_get"} -> FileKey(h.fid)
      [] op \in {"ta_get", "ta_set"} -> FileKey(h.tid)
      [] op \in {"df_get", "df_del"} -> FileKey(h.dl[1].fileId)
      [] op \in {"df_getU", "df_setU"} -> UserFilesKey(h.dfile[1].savedBy)
      [] op \in {"df_getC", "df_setC"} -> CategoryKey(h.dfile[1].category)
      [] op = "sf_put" -> FileKey(generateSecureId(nextId))
      [] op \in {"sf_getU", "sf_setU"} -> UserFilesKey(h.sv[1].userId)
      [] op \in {"sf_getC", "sf_setC"} -> CategoryKey(h.sv[1].category)
      [] op = "uf_list" -> h.lkey
      [] op = "uf_file" -> FileKey(Head(h.todo))
      [] op \in {"an_get", "tr_get", "tr_set"} -> StatsKey

\* the value a db.set writes.  The code that builds the value ran when the
\* preceding await resolved, so its Date.now() is h.ts.  saveFile draws its id
\* there too; an id is seen by nothing before it is stored, so the model
\* draws it at the put.
ValueOf(h) ==
    LET op == Op(h) IN
    CASE op = "tr_set" -> h.stats[1]
      [] op = "gs_new" -> h.session[1]
      [] op = "us_new" -> h.usess[1]
      [] op = "us_set" -> updateSession(h.usess[1], h.st, h.ts)
      [] op = "sf_put" ->
           FileObject(generateSecureId(nextId), h.sv[1].fileData, h.sv[1].userId,
                      h.sv[1].category, h.ts)
      [] op \in {"sf_setU", "sf_setC"} -> Append(h.lst, h.newId)
      [] op = "ta_set" -> Accessed(h.tfile[1], h.ts)
      [] op \in {"df_setU", "df_setC"} -> SelectSeqNe(h.lst, h.dl[1].fileId)

\* SessionManager.getSession after db.get returned v: the stored session, or a
\* new idle one that is written first
getSession(h, v) ==
    IF v = None
    THEN [h EXCEPT !.session = Some(NewSession(h.uid, now)),
                   !.pc = <<F("gs_new")>> \o Tail(h.pc)]
    ELSE [h EXCEPT !.session = v, !.pc = Tail(h.pc)]

\* the getSession inside updateSession
getSessionForUpdate(h, v) ==
    IF v = None
    THEN [h EXCEPT !.usess = Some(NewSession(h.uid, now)),
                   !.pc = <<F("us_new")>> \o Tail(h.pc)]
    ELSE [h EXCEPT !.usess = v, !.pc = Tail(h.pc)]

\* FileManager.trackFileAccess after getFile returned v
trackFileAccess(h, v) ==
    IF v = None THEN Pop(h)
    ELSE [h EXCEPT !.tfile = v, !.pc = <<F("ta_set")>> \o Tail(h.pc)]

\* FileManager.deleteFile after getFile returned v
deleteFile(h, v) ==
    IF v = None THEN [h EXCEPT !.ret = "false", !.pc = Tail(h.pc)]
    ELSE IF ~MayDelete(h.dl[1].userId, v[1])
    THEN [h EXCEPT !.ret = "false", !.pc = Tail(h.pc)]
    ELSE [h EXCEPT !.dfile = v, !.pc = DeleteFileRest \o Tail(h.pc)]

\* FileManager.getUserFiles / getFilesByCategory after the index was read
getUserFiles(h, v) ==
    LET fileIds == OrEmpty(v) IN
    [h EXCEPT !.lst = fileIds, !.todo = fileIds, !.acc = <<>>,
              !.pc = (IF fileIds = <<>> THEN <<>> ELSE <<F("uf_file")>>) \o Tail(h.pc)]

\* a faulty fetch: the record fetched last comes first
FetchNextFirst(h, v) ==
    [h EXCEPT !.acc = <<v>> \o h.acc, !.todo = Tail(h.todo),
              !.pc = IF Tail(h.todo) = <<>> THEN Tail(h.pc) ELSE h.pc]

\* one getFile of the fetch of every listed record
FetchNext(h, v) ==
    [h EXCEPT !.acc = Append(h.acc, v), !.todo = Tail(h.todo),
              !.pc = IF Tail(h.todo) = <<>> THEN Tail(h.pc) ELSE h.pc]

\* the action name trackAction is called with
ActionOf(e) == IF e.type = "message" THEN "message" ELSE "callback_query"

AfterGet(h, v) ==
    LET op == Op(h) IN
    CASE op = "tr_get" ->
           [h EXCEPT !.stats = Some(trackAction(IF v = None THEN NoStats ELSE v[1],
                                                h.uid, ActionOf(h.ev))),
                     !.pc = Tail(h.pc)]
      [] op = "gs_get" -> getSession(h, v)
      [] op = "us_get" -> getSessionForUpdate(h, v)
      [] op = "start_get" -> handleStartFound(h, v)
      [] op = "del_get" -> handleDeleteFound(h, v)
      [] op = "cbdel_get" -> handleDeleteCallbackFound(h, v)
      [] op = "share_get" -> handleShareFound(h, v)
      [] op = "gf_get" -> [h EXCEPT !.file = v, !.pc = Tail(h.pc)]
      [] op = "ta_get" -> trackFileAccess(h, v)
      [] op = "df_get" -> deleteFile(h, v)
      [] op \in {"df_getU", "df_getC", "sf_getU", "sf_getC"} ->
           [h EXCEPT !.lst = OrEmpty(v), !.pc = Tail(h.pc)]
      [] op = "uf_list" -> getUserFiles(h, v)
      [] op = "uf_file" -> FetchNext(h, v)
      [] op = "an_get" -> Pop(h)

AfterSet(h) ==
    LET op == Op(h) IN
    CASE op = "sf_put" -> [h EXCEPT !.newId = generateSecureId(nextId), !.pc = Tail(h.pc)]
      [] op = "df_setC" -> [h EXCEPT !.ret = "true", !.pc = Tail(h.pc)]
      [] OTHER -> Pop(h)

\* db.listKeys("file:"): the keys in the order of the namespace, then slice(0, 10)
ListedIds(store) ==
    LET all == SelectSeq(IdPool, LAMBDA id : FileKey(id) \in DOMAIN store)
    IN SubSeq(all, 1, Min(StatsLimit, Len(all)))

AfterList(h, ids) ==
    [h EXCEPT !.todo = ids, !.acc = <<>>,
              !.pc = (IF ids = <<>> THEN <<>> ELSE <<F("uf_file")>>) \o Tail(h.pc)]

\* the code that runs without an await
LocalStep(h) ==
    LET op == Op(h) IN
    CASE op = "route" -> processMessage(h)
      [] op = "cb_route" -> processCallbackQuery(h)
      [] op = "cat_route" -> handleCategoryChosen(h)
      [] op = "throw" -> Throw(h)

RECURSIVE Run(_)
Run(h) ==
    IF h.resp # "" THEN h
    ELSE IF h.pc = <<>> THEN [h EXCEPT !.resp = "OK"]
    ELSE IF Op(h) \in LocalOps THEN Run(LocalStep(h))
    ELSE h

\* run the handler on to its next await, at the present time; with nothing
\* left, fetch returns "OK"
Sync(h) == [Run(h) EXCEPT !.ts = now]

----------------------------------------------------------------------------
(* fetch, TelegramBot.processUpdate and the entry of the dispatcher *)

\* a method of FileManager or SessionManager invoked directly
Invoke(h, c) ==
    CASE c.fn = "setState" ->
           [h EXCEPT !.uid = c.args.userId, !.st = setState(c.args.state, c.args.data),
                     !.pc = SetStateProg]
      [] c.fn = "getSession" -> [h EXCEPT !.uid = c.args.userId, !.pc = <<F("gs_get")>>]
      [] c.fn = "saveFile" -> [h EXCEPT !.sv = Some(c.args), !.pc = SaveFileProg]
      [] c.fn = "deleteFile" -> [h EXCEPT !.dl = Some(c.args), !.pc = DeleteFileProg]
      [] c.fn = "trackFileAccess" -> [h EXCEPT !.tid = c.args.fileId, !.pc = TrackProg]
      [] c.fn = "getFile" -> [h EXCEPT !.fid = c.args.fileId, !.pc = <<F("gf_get")>>]
      [] c.fn = "getUserFiles" ->
           [h EXCEPT !.lkey = UserFilesKey(c.args.userId), !.pc = ListProg]
      [] c.fn = "getFilesByCategory" ->
           [h EXCEPT !.lkey = CategoryKey(c.args.category), !.pc = ListProg]

\* fetch up to the first await of the handler it reaches
Start(e) ==
    LET h == NewHandler(e) IN
    CASE e.type = "GET" -> [h EXCEPT !.resp = "405"]
      [] e.type = "badjson" -> [h EXCEPT !.resp = "400"]
      [] e.type = "null" -> Throw(h)       \* update.message of null, again in the catch
      [] e.type = "other" -> h
      [] e.type = "message" ->
           IF e.from = "" THEN Throw(h)    \* message.from.id of undefined
           ELSE Go(h, TrackActionProg \o <<F("gs_get"), F("route")>>)
      [] e.type = "callback" ->
           IF e.from = "" THEN Throw(h)    \* callbackQuery.from.id of undefined
           ELSE Go(h, TrackActionProg \o <<F("cb_route")>>)
      [] e.type = "call" -> Invoke(h, e.call[1])

----------------------------------------------------------------------------
(* The environment: which requests arrive *)

Slots == 1..MaxInFlight

FileIds == {IdPool[i] : i \in 1..MaxFiles}

\* the command of a message, "" when its text is none
CommandOf(e) ==
    IF e.type = "message" /\ parseCommand(e.text) # None
    THEN parseCommand(e.text)[1] ELSE [command |-> "", args |-> "", key |-> "", val |-> ""]

\* the stored session state of the sender, "idle" when none is stored
StateOf(store, userId) ==
    IF SessionKey(userId) \in DOMAIN store THEN store[SessionKey(userId)].state ELSE "idle"

\* the request asks for the stored file id: a deep link, or a direct trackFileAccess
Retrieves(e, id) ==
    \/ e.type = "message" /\ CommandOf(e).command = "start"
          /\ CommandOf(e).key = "post=" /\ CommandOf(e).val = id
    \/ e.type = "call" /\ e.call[1].fn = "trackFileAccess" /\ e.call[1].args.fileId = id

\* the request of an administrator that opens an upload
StartsUpload(e) ==
    \/ e.type = "message" /\ isAdmin(e.from)
          /\ (CommandOf(e).command = "save" \/ hasAttachment(e.att))
    \/ e.type = "call" /\ e.call[1].fn = "saveFile"

InFlightRetrievals(id) ==
    Cardinality({s \in Slots : Running(inflight[s]) /\ Retrieves(inflight[s].ev, id)})

InFlightUploads ==
    Cardinality({s \in Slots : Running(inflight[s]) /\ StartsUpload(inflight[s].ev)})

\* the request quotes the id
Quotes(e, id) ==
    \/ e.type = "message" /\ e.text # None /\ e.text[1].val = id
    \/ e.type = "callback" /\ e.data # None /\ id \in Range(e.data[1])
    \/ e.type = "call" /\ "fileId" \in DOMAIN e.call[1].args /\ e.call[1].args.fileId = id

\* the id has been issued and the request that saved it is over: only then
\* has anyone been told the id
Known(id) ==
    /\ \E i \in 1..(nextId - 1) : IdPool[i] = id
    /\ \A s \in Slots : ~(Running(inflight[s]) /\ inflight[s].newId = id)

\* what a user types while asked for a category
CategoryTexts == {"Documents", "cancel", "CANCEL"}

\* The bounds on the environment: at most maxFiles uploads are opened, at
\* most MaxAccess retrievals are made of one record, and a user who is asked
\* for a category answers with one of CategoryTexts, /cancel or no text.  An
\* id of the generator is quoted only once it is known; StaleId stands for
\* every other string.
Bounded(e, maxFiles) ==
    /\ StartsUpload(e) => nextId + InFlightUploads <= maxFiles
    /\ \A id \in Range(IdPool) : Quotes(e, id) => Known(id)
    /\ \A id \in Range(IdPool) :
          Retrieves(e, id) => hits[id] + InFlightRetrievals(id) < MaxAccess

AnswersCategory(e) ==
    (e.type = "message" /\ e.from # ""
       /\ StateOf(kv, e.from) = "awaiting_file_category" /\ e.text # None)
    => (e.text[1].word \in CategoryTexts \/ CommandOf(e).command = "cancel")

Admissible(e, maxFiles) == Bounded(e, maxFiles) /\ AnswersCategory(e)

----------------------------------------------------------------------------
(* The steps *)

Init ==
    /\ kv = <<>>
    /\ inflight = [s \in Slots |-> Free]
    /\ nextId = 1
    /\ now = 0
    /\ hits = [id \in Range(IdPool) |-> 0]
    /\ gone = {}

Quiet == \A s \in Slots : inflight[s] = Free

\* fetch is invoked with request e and runs to its first await
Accept(s, e) ==
    /\ inflight[s] = Free
    /\ inflight' = [inflight EXCEPT
                        ![s] = [Sync(Start(e)) EXCEPT !.before = IF Quiet THEN kv ELSE <<>>]]
    /\ UNCHANGED <<kv, nextId, now, hits, gone>>

\* a request of the bounded environment arrives
Receive(s, e, maxFiles) == Admissible(e, maxFiles) /\ Accept(s, e)

\* Database.get resolves
KvGet(s) ==
    LET h == inflight[s] IN
    /\ Running(h) /\ h.pc # <<>> /\ Op(h) \in GetOps
    /\ inflight' = [inflight EXCEPT ![s] = Sync(AfterGet(h, DbGet(kv, KeyOf(h))))]
    /\ UNCHANGED <<kv, nextId, now, hits, gone>>

\* Database.set resolves
KvSet(s) ==
    LET h == inflight[s] IN
    /\ Running(h) /\ h.pc # <<>> /\ Op(h) \in SetOps
    /\ Op(h) = "sf_put" => nextId <= Len(IdPool)
    /\ kv' = DbSet(kv, KeyOf(h), ValueOf(h))
    /\ inflight' = [inflight EXCEPT ![s] = Sync(AfterSet(h))]
    /\ nextId' = IF Op(h) = "sf_put" THEN nextId + 1 ELSE nextId
    /\ hits' = IF Op(h) = "ta_set" THEN [hits EXCEPT ![h.tid] = @ + 1] ELSE hits
    /\ gone' = IF Op(h) = "df_setC" THEN gone \cup {h.dl[1].fileId} ELSE gone
    /\ UNCHANGED now

\* Database.delete resolves
KvDelete(s) ==
    LET h == inflight[s] IN
    /\ Running(h) /\ h.pc # <<>> /\ Op(h) \in DeleteOps
    /\ kv' = DbDelete(kv, KeyOf(h))
    /\ inflight' = [inflight EXCEPT ![s] = Sync(Pop(h))]
    /\ UNCHANGED <<nextId, now, hits, gone>>

\* Database.listKeys resolves
KvList(s) ==
    LET h == inflight[s] IN
    /\ Running(h) /\ h.pc # <<>> /\ Op(h) \in ListOps
    /\ inflight' = [inflight EXCEPT ![s] = Sync(AfterList(h, ListedIds(kv)))]
    /\ UNCHANGED <<kv, nextId, now, hits, gone>>

\* a faulty callMethod: a failure is swallowed and the handler goes on
callMethodSwallowing(s, outcomes) ==
    LET h == inflight[s] IN
    /\ Running(h) /\ h.pc # <<>> /\ Op(h) \in TgOps
    /\ \E ok \in outcomes :
          LET h1 == [h EXCEPT !.calls = Append(@, [call |-> CallOf(h), ok |-> ok])]
          IN inflight' = [inflight EXCEPT ![s] = Sync(Pop(h1))]
    /\ UNCHANGED <<kv, nextId, now, hits, gone>>

\* TelegramAPI.callMethod settles: it returns data.result, or it throws (the
\* request failed, or the platform answered ok: false).  No caller awaits it
\* inside a try block, so the exception leaves fetch.
callMethod(s, outcomes) ==
    LET h == inflight[s] IN
    /\ Running(h) /\ h.pc # <<>> /\ Op(h) \in TgOps
    /\ \E ok \in outcomes :
          LET h1 == [h EXCEPT !.calls = Append(@, [call |-> CallOf(h), ok |-> ok])]
          IN inflight' = [inflight EXCEPT ![s] = IF ok THEN Sync(Pop(h1)) ELSE Sync(Throw(h1))]
    /\ UNCHANGED <<kv, nextId, now, hits, gone>>

\* the outcome of fetch has been delivered
Respond(s) ==
    /\ Finished(inflight[s])
    /\ inflight' = [inflight EXCEPT ![s] = Free]
    /\ UNCHANGED <<kv, nextId, now, hits, gone>>

\* a faulty trackAction: the error of the database is not caught
RecorderThrows(s) ==
    LET h == inflight[s] IN
    /\ Running(h) /\ h.pc # <<>> /\ Op(h) \in {"tr_get", "tr_set"}
    /\ inflight' = [inflight EXCEPT ![s] = Sync(Throw([h EXCEPT !.lost = TRUE]))]
    /\ UNCHANGED <<kv, nextId, now, hits, gone>>

\* Analytics.trackAction: its db.get or its db.set throws; the catch logs the
\* error and trackAction returns, the stats not written
RecorderFails(s) ==
    LET h == inflight[s] IN
    /\ Running(h) /\ h.pc # <<>> /\ Op(h) \in {"tr_get", "tr_set"}
    /\ inflight' = [inflight EXCEPT
                        ![s] = Sync([h EXCEPT !.lost = TRUE,
                                              !.pc = IF Op(h) = "tr_get" THEN Tail(Tail(h.pc))
                                                     ELSE Tail(h.pc)])]
    /\ UNCHANGED <<kv, nextId, now, hits, gone>>

\* the wall clock advances
Tick ==
    /\ now < MaxClock
    /\ now' = now + 1
    /\ UNCHANGED <<kv, inflight, nextId, hits, gone>>


----------------------------------------------------------------------------
(* The dispatcher, one request at a time *)

Doc == Att("document", "doc-1", "report")
Photo == Att("photo", "photo-1", "")
Sticker == Att("sticker", "st-1", "")

Cmd(word) == Some(Txt(TRUE, word, "", "", ""))
CmdArg(word, arg) == Some(Txt(TRUE, word, "", "", arg))
Word(word) == Some(Txt(FALSE, word, "", "", ""))

\* the ids a user may quote: those issued, and one that never was
QuotedIds == FileIds \cup {StaleId}

Texts ==
    {Cmd("start"), Cmd("help"), Cmd("files"), Cmd("stats"), Cmd("cancel"), Cmd("delete"),
     Cmd("settings"), Word("confirm"), Word("CONFIRM"), Word("cancel"), Word("Documents"),
     Word("hello")}
    \cup {Some(Txt(TRUE, "start", "", "post=", id)) : id \in QuotedIds}
    \cup {CmdArg("delete", id) : id \in QuotedIds}

Messages ==
    {Message(u, t, None, None) : u \in Users, t \in Texts}
    \cup {Message(u, Cmd("save"), None, r) : u \in Users, r \in {None, Some(None), Some(Some(Doc))}}
    \cup {Message(u, None, Some(a), None) : u \in Users, a \in {Photo, Sticker}}
    \cup {Message("", Cmd("help"), None, None)}

Datas ==
    {<<"file", "list", "1">>, <<"file", "open">>, <<"page", "files", "1">>,
     <<"page", "files", "0">>, <<"page", "users", "1">>, <<"category", "documents">>,
     <<"category", "cancel">>, <<"category">>, <<"confirm", "cancel">>, <<"stats", "view">>}
    \cup {<<"file", a, id>> : a \in {"share", "delete"}, id \in QuotedIds}
    \cup {<<"delete", id>> : id \in QuotedIds}
    \cup {<<"confirm", "delete", id>> : id \in QuotedIds}

CallbackQueries ==
    {CallbackQuery(u, Some(d), TRUE) : u \in Users, d \in Datas}
    \cup {CallbackQuery("u", Some(d), FALSE) :
             d \in {<<"file", "list", "1">>, <<"page", "files", "1">>, <<"category", "documents">>,
                    <<"confirm", "cancel">>, <<"stats", "view">>}}
    \cup {CallbackQuery("u", None, TRUE), CallbackQuery("", Some(<<"stats", "view">>), TRUE)}

Requests == {Request(t) : t \in {"GET", "badjson", "null", "other"}}

Updates == Messages \cup CallbackQueries \cup Requests

\* the next request is delivered once the previous one has been answered
Deliver == Quiet /\ \E e \in Updates : Receive(1, e, MaxFiles)

Next ==
    \/ Deliver
    \/ KvGet(1)
    \/ KvSet(1)
    \/ KvDelete(1)
    \/ KvList(1)
    \/ callMethod(1, BOOLEAN)
    \/ Respond(1)

Spec == Init /\ [][Next]_vars

----------------------------------------------------------------------------
(* The registry on its own: FileManager's methods invoked one at a time *)

RegIds == {IdPool[i] : i \in 1..MaxRegFiles} \cup {StaleId}

DocData == extractFileData(Some(Doc))[1]

Categories == {"documents", "photos"}

RegCalls ==
    {Call("saveFile", [fileData |-> DocData, userId |-> u, category |-> c]) :
        u \in Users, c \in Categories}
    \cup {Call("deleteFile", [fileId |-> i, userId |-> u]) : i \in RegIds, u \in Users}
    \cup {Call("trackFileAccess", [fileId |-> i]) : i \in RegIds}
    \cup {Call("getFile", [fileId |-> i]) : i \in RegIds}
    \cup {Call("getUserFiles", [userId |-> u]) : u \in Users}
    \cup {Call("getFilesByCategory", [category |-> c]) : c \in Categories}

CallNext == Quiet /\ \E e \in RegCalls : Receive(1, e, MaxRegFiles)

NextReg ==
    \/ CallNext
    \/ KvGet(1)
    \/ KvSet(1)
    \/ KvDelete(1)
    \/ Respond(1)
    \/ Tick

SpecReg == Init /\ [][NextReg]_vars

----------------------------------------------------------------------------
(* Requests handled concurrently: each fetch is its own invocation, and    *)
(* invocations interleave at their awaits.                                 *)

\* the record that is retrieved and deleted while others are saved
ConcIds == {IdPool[1]}

ConcCalls ==
    {Call("saveFile", [fileData |-> DocData, userId |-> "a", category |-> "documents"])}
    \cup {Call("deleteFile", [fileId |-> i, userId |-> "a"]) : i \in ConcIds}
    \cup {Call("trackFileAccess", [fileId |-> i]) : i \in ConcIds}

ConcUpdates ==
    {Message("u", Some(Txt(TRUE, "start", "", "post=", i)), None, None) : i \in ConcIds}

\* a request arrives while others are being handled; it takes the first free slot
Arrive ==
    \E s \in Slots, e \in ConcCalls \cup ConcUpdates :
        /\ \A t \in 1..(s - 1) : inflight[t] # Free
        /\ Receive(s, e, MaxFiles)

Get == \E s \in Slots : KvGet(s)
Set == \E s \in Slots : KvSet(s)
Delete == \E s \in Slots : KvDelete(s)
Send == \E s \in Slots : callMethod(s, {TRUE})
Done == \E s \in Slots : Respond(s)

NextConc ==
    \/ Arrive
    \/ Get
    \/ Set
    \/ Delete
    \/ Send
    \/ Done

SpecConc == Init /\ [][NextConc]_vars

----------------------------------------------------------------------------
(* The SessionManager on its own: getSession and setState invoked one at a *)
(* time, while the clock advances.                                         *)

SessionStates == {"idle", "awaiting_file_category", "awaiting_delete_confirm"}

SessionDatas ==
    {EmptyObj, [fileId |-> IdPool[1]], [messageId |-> MessageIdOf(Some(Doc)), fileData |-> DocData],
     [fileId |-> IdPool[2], page |-> 2]}

SessionCalls ==
    {Call("setState", [userId |-> u, state |-> st, data |-> d]) :
        u \in Users, st \in SessionStates, d \in SessionDatas}
    \cup {Call("getSession", [userId |-> u]) : u \in Users}

CallSession == Quiet /\ \E e \in SessionCalls : Accept(1, e)

NextSession ==
    \/ CallSession
    \/ KvGet(1)
    \/ KvSet(1)
    \/ Respond(1)
    \/ Tick

SpecSession == Init /\ [][NextSession]_vars

----------------------------------------------------------------------------
(* A namespace that already holds records.  The administrator has sent n   *)
(* attachments, one after the other, and typed the category "Documents"    *)
(* for each; record i has then been retrieved counts[i] times by the       *)
(* administrator.  What is stored then is Stored(kinds, counts).           *)

Attachment(kind) ==
    CASE kind = "document" -> Doc
      [] kind = "photo" -> Photo
      [] OTHER -> Att(kind, kind \o "-1", "")

\* the fileData of an attachment of the kind
StoredData(kind) ==
    [file_id |-> Attachment(kind).file_id, file_type |-> kind,
     caption |-> Attachment(kind).caption]

StoredFile(i, kind, count) ==
    LET f == FileObject(IdPool[i], StoredData(kind), "a", "Documents", 0)
    IN [f EXCEPT !.accessCount = count,
                 !.lastAccessed = IF count = 0 THEN None ELSE Some(0)]

Stored(kinds, counts) ==
    LET n == Len(kinds)
        ids == [i \in 1..n |-> IdPool[i]]
        keys == {FileKey(IdPool[i]) : i \in 1..n}
                    \cup {UserFilesKey("a"), CategoryKey("Documents"), SessionKey("a"), StatsKey}
    IN IF n = 0 THEN <<>>
       ELSE [k \in keys |->
                CASE k = UserFilesKey("a") -> ids
                  [] k = CategoryKey("Documents") -> ids
                  [] k = SessionKey("a") -> NewSession("a", 0)
                  [] k = StatsKey -> trackAction(NoStats, "a", "message")
                  [] OTHER -> LET i == CHOOSE j \in 1..n : IdPool[j] = k[2]
                              IN StoredFile(i, kinds[i], counts[i])]

\* the requests start on one of the given namespaces
InitFrom(stores) ==
    /\ kv \in stores
    /\ inflight = [s \in Slots |-> Free]
    /\ nextId = Cardinality({k \in DOMAIN kv : k[1] = "file:"}) + 1
    /\ now = 0
    /\ hits = [id \in Range(IdPool) |-> 0]
    /\ gone = {}

----------------------------------------------------------------------------
(* The flows of the dispatcher over one stored record, one request at a    *)
(* time.  The record is of any of the six kinds; or it is of a kind that   *)
(* this extractFileData does not produce (written by another deployment    *)
(* on the same namespace), which handleStart provides for.  While asked    *)
(* for a category the administrator may type anything.                     *)

ForeignKind == "sticker"

FlowStores == {Stored(<<k>>, <<c>>) : k \in Kinds \cup {ForeignKind}, c \in {0, 1}}

FlowIds == {IdPool[1], StaleId}

FlowTexts ==
    {Cmd("cancel"), Cmd("CANCEL"), Some(Txt(TRUE, "cancel", "@YourBotUsername", "", "")),
     Some(Txt(TRUE, "cancel", "", "", "now")), Word("cancel"), Word("Documents"),
     Cmd("settings"), Cmd("constructor"), Cmd("__proto__")}
    \cup {Some(Txt(TRUE, "start", "", "post=", id)) : id \in FlowIds}

FlowMessages ==
    {Message("a", t, None, None) : t \in FlowTexts}
    \cup {Message("u", Some(Txt(TRUE, "start", "", "post=", id)), None, None) : id \in FlowIds}
    \cup {Message("a", Cmd("save"), None, r) : r \in {Some(None), Some(Some(Sticker)), Some(Some(Doc))}}
    \cup {Message("a", None, Some(Photo), None)}

FlowCallbacks ==
    {CallbackQuery("a", Some(d), TRUE) : d \in {<<"category", "cancel">>, <<"category", "documents">>}}

DeliverFlow ==
    /\ Quiet
    /\ \E e \in FlowMessages \cup FlowCallbacks : Bounded(e, MaxFiles) /\ Accept(1, e)

NextFlow ==
    \/ DeliverFlow
    \/ KvGet(1)
    \/ KvSet(1)
    \/ callMethod(1, BOOLEAN)
    \/ Respond(1)

SpecFlow == InitFrom(FlowStores) /\ [][NextFlow]_vars

----------------------------------------------------------------------------
(* The flows of the dispatcher while the database fails under the usage    *)
(* recorder: the read or the write of trackAction may throw at any         *)
(* request.  Telegram answers.                                             *)

NextRec ==
    \/ DeliverFlow
    \/ KvGet(1)
    \/ KvSet(1)
    \/ RecorderFails(1)
    \/ callMethod(1, {TRUE})
    \/ Respond(1)

SpecRec == InitFrom(FlowStores) /\ [][NextRec]_vars

----------------------------------------------------------------------------
(* The listings over index lists with stale entries, one call at a time.   *)
(* A saveFile that read an index list before a deleteFile ran, and wrote   *)
(* it back after, leaves on the list an id whose record is gone; so does a *)
(* deleteFile that has not reached its index writes.  The calls start on   *)
(* a namespace of up to MaxStale records from which any of the records     *)
(* have gone that way.                                                     *)

MaxStale == 3      \* records of a namespace that the stale scenarios start on

\* the store without the records of ids, the index lists as they were
Stale(store, ids) == [k \in DOMAIN store \ {FileKey(id) : id \in ids} |-> store[k]]

StaleStores ==
    UNION {{Stale(Stored([i \in 1..n |-> "document"], [i \in 1..n |-> 0]),
                  {IdPool[i] : i \in lost}) : lost \in SUBSET (1..n)} : n \in 0..MaxStale}

StaleCalls ==
    {Call("getUserFiles", [userId |-> u]) : u \in Users}
    \cup {Call("getFilesByCategory", [category |-> c]) : c \in {"Documents", "photos"}}
    \cup {Call("deleteFile", [fileId |-> IdPool[i], userId |-> "a"]) : i \in 1..MaxStale}

CallStale == Quiet /\ \E e \in StaleCalls : Accept(1, e)

NextStale ==
    \/ CallStale
    \/ KvGet(1)
    \/ KvSet(1)
    \/ KvDelete(1)
    \/ Respond(1)

SpecStale == InitFrom(StaleStores) /\ [][NextStale]_vars

----------------------------------------------------------------------------
(* The flows of one user handled concurrently.  The administrator's        *)
(* namespace holds one document; updates that open, continue and cancel    *)
(* the two flows arrive while others are being handled, and every state    *)
(* of the session may be the one a handler has read when another writes.   *)

RaceStores == {Stored(<<"document">>, <<0>>)}

RaceTexts == {Word("cancel"), CmdArg("delete", IdPool[1])}

RaceUpdates ==
    {Message("a", t, None, None) : t \in RaceTexts}
    \cup {Message("a", None, Some(Photo), None)}

\* an update arrives while others are being handled; it takes the first free slot
ArriveRace ==
    \E s \in Slots, e \in RaceUpdates :
        /\ \A t \in 1..(s - 1) : inflight[t] # Free
        /\ Bounded(e, MaxFiles)
        /\ Accept(s, e)

NextRace ==
    \/ ArriveRace
    \/ Get
    \/ Set
    \/ Send
    \/ Done

SpecRace == InitFrom(RaceStores) /\ [][NextRace]_vars

----------------------------------------------------------------------------
(* The lists of the dispatcher over a namespace that holds up to MaxStored *)
(* records of the administrator, one request at a time: /files and its     *)
(* pages, /stats.                                                          *)

\* how often record i of n has been retrieved, in each of the namespaces
CountsOf(n) ==
    {[i \in 1..n |-> 0], [i \in 1..n |-> 1], [i \in 1..n |-> i % 3],
     [i \in 1..n |-> IF i = n THEN 2 ELSE 0], [i \in 1..n |-> IF i = n THEN 2 ELSE 1]}

ListStores ==
    UNION {{Stored([i \in 1..n |-> "document"], c) : c \in CountsOf(n)} : n \in 0..MaxStored}

ListMessages == {Message(u, Cmd(c), None, None) : u \in Users, c \in {"files", "stats"}}

ListCallbacks ==
    {CallbackQuery("a", Some(<<"page", "files", p>>), TRUE) : p \in {"0", "1", "2", "3"}}
    \cup {CallbackQuery("a", Some(<<"file", "list", "2">>), TRUE),
          CallbackQuery("u", Some(<<"page", "files", "1">>), TRUE)}

DeliverList ==
    /\ Quiet
    /\ \E e \in ListMessages \cup ListCallbacks : Accept(1, e)

NextList ==
    \/ DeliverList
    \/ KvGet(1)
    \/ KvSet(1)
    \/ KvList(1)
    \/ callMethod(1, BOOLEAN)
    \/ Respond(1)

SpecList == InitFrom(ListStores) /\ [][NextList]_vars

----------------------------------------------------------------------------
(* Properties *)

IsCall(h, fn) == h.ev.type = "call" /\ h.ev.call[1].fn = fn

RegistryKeys(store) ==
    {k \in DOMAIN store : k[1] \in {"file:", "user:files:", "category:"}}

IndexKeys(store) == {k \in DOMAIN store : k[1] \in {"user:files:", "category:"}}

\* the registry part of two stores is the same
SameRegistry(a, b) ==
    /\ RegistryKeys(a) = RegistryKeys(b)
    /\ \A k \in RegistryKeys(a) : a[k] = b[k]

PosIn(list, x) == CHOOSE i \in DOMAIN list : list[i] = x

\* new is old without id, the others in their previous order
KeepsOrder(old, new, id) ==
    /\ Range(new) = Range(old) \ {id}
    /\ Len(new) = Cardinality(Range(new))
    /\ \A i, j \in DOMAIN new : i < j => PosIn(old, new[i]) < PosIn(old, new[j])

ListedIn(store, key) == LET l == Listing(store, key) IN [i \in DOMAIN l |-> l[i].id]

AnswerCount(h) ==
    Cardinality({i \in DOMAIN h.calls : h.calls[i].call.m = "answerCallbackQuery"})

PressedCategoryDocuments(h) ==
    h.ev = CallbackQuery("a", Some(<<"category", "documents">>), TRUE)

\* C1: with requests handled one at a time, when the administrator's press of
\* category:documents has saved the pending upload, the reply quotes
\* https://t.me/<BOT_USERNAME>?start=post=<id> for the id of the record just
\* created, which holds the uploaded file handle with accessCount 0; and when
\* another user's "/start post=<id>" of a stored document has been handled,
\* the bot has called sendDocument with the stored file_id to that user's
\* chat and the record's accessCount is one more than before (1 the first time).
C1_SaveThenRetrieve ==
    \A s \in Slots :
        LET h == inflight[s] IN
        /\ (h.resp = "OK" /\ PressedCategoryDocuments(h) /\ h.newId # "")
           => /\ Last(h.calls).call.m = "editMessageText"
              /\ Last(h.calls).call.to = "a"
              /\ Last(h.calls).call.link
                    = "https://t.me/" \o "YourBotUsername" \o "?start=post=" \o h.newId
              /\ getFile(h.before, h.newId) = None
              /\ getFile(kv, h.newId) # None
              /\ kv[FileKey(h.newId)].file_id
                    = h.before[SessionKey("a")].data.fileData.file_id
              /\ kv[FileKey(h.newId)].category = "documents"
              /\ kv[FileKey(h.newId)].accessCount = 0
        /\ \A id \in FileIds :
              (/\ h.resp = "OK" /\ h.ev.from = "u" /\ Retrieves(h.ev, id)
               /\ getFile(h.before, id) # None
               /\ h.before[FileKey(id)].file_type = "document")
              => /\ Len(h.calls) = 1
                 /\ h.calls[1].call.m = "sendDocument"
                 /\ h.calls[1].call.to = "u"
                 /\ h.calls[1].call.file = h.before[FileKey(id)].file_id
                 /\ h.calls[1].ok
                 /\ kv[FileKey(id)].accessCount = h.before[FileKey(id)].accessCount + 1
                 /\ (hits[id] = 1 => kv[FileKey(id)].accessCount = 1)

\* C1 witness: the other user has been sent the document that the
\* administrator saved under "documents", and its accessCount is 1
C1_Witness ==
    \E s \in Slots, id \in FileIds :
        LET h == inflight[s] IN
        /\ h.resp = "OK" /\ h.ev.from = "u" /\ Retrieves(h.ev, id)
        /\ Len(h.calls) = 1 /\ h.calls[1].call.m = "sendDocument"
        /\ h.calls[1].call.file = "doc-1"
        /\ getFile(kv, id) # None
        /\ kv[FileKey(id)].savedBy = "a"
        /\ kv[FileKey(id)].category = "documents"
        /\ kv[FileKey(id)].accessCount = 1


\* C2: right after saveFile(fileData, owner, category) has returned id,
\* getFile(id) is a record with exactly the fields of fileData plus id,
\* savedBy = owner, the given category, a createdAt not in the future,
\* accessCount = 0 and lastAccessed = null, and id is the last element of the
\* owner's index list and of the category's index list.
C2_SaveThenGet ==
    \A s \in Slots :
        LET h == inflight[s] IN
        (h.resp = "OK" /\ IsCall(h, "saveFile"))
        => LET a == h.ev.call[1].args
               got == getFile(kv, h.newId)
           IN /\ h.newId # ""
              /\ getFile(h.before, h.newId) = None
              /\ got # None
              /\ DOMAIN got[1] = DOMAIN a.fileData
                     \cup {"id", "savedBy", "category", "createdAt", "accessCount", "lastAccessed"}
              /\ \A f \in DOMAIN a.fileData : got[1][f] = a.fileData[f]
              /\ got[1].id = h.newId
              /\ got[1].savedBy = a.userId
              /\ got[1].category = a.category
              /\ got[1].createdAt \in 0..now
              /\ got[1].accessCount = 0
              /\ got[1].lastAccessed = None
              /\ Last(kv[UserFilesKey(a.userId)]) = h.newId
              /\ Last(kv[CategoryKey(a.category)]) = h.newId

\* C2 witness: saveFile has returned an id that was appended to index lists
\* that already held other ids
C2_Witness ==
    \E s \in Slots :
        LET h == inflight[s] IN
        /\ h.resp = "OK" /\ IsCall(h, "saveFile")
        /\ h.ev.call[1].args.userId = "u"
        /\ Len(kv[UserFilesKey("u")]) >= 2
        /\ Len(kv[CategoryKey(h.ev.call[1].args.category)]) >= 2
        /\ Last(kv[UserFilesKey("u")]) = h.newId

\* C3: with one request handled at a time, after deleteFile(id, requester)
\* has returned true, getFile(id) is absent, id is neither in the result of
\* getUserFiles(owner) nor in that of getFilesByCategory(record.category), and
\* every other id of those results is still there, in its previous order.
C3_DeleteThenGet ==
    \A s \in Slots :
        LET h == inflight[s] IN
        (h.resp = "OK" /\ IsCall(h, "deleteFile") /\ h.ret = "true")
        => LET id == h.ev.call[1].args.fileId
               record == h.before[FileKey(id)]
               U == UserFilesKey(record.savedBy)
               C == CategoryKey(record.category)
           IN /\ getFile(kv, id) = None
              /\ id \notin Range(ListedIn(kv, U))
              /\ id \notin Range(ListedIn(kv, C))
              /\ KeepsOrder(ListedIn(h.before, U), ListedIn(kv, U), id)
              /\ KeepsOrder(ListedIn(h.before, C), ListedIn(kv, C), id)

\* C3 witness: the owner has deleted the second of three records of one
\* category; the first and the third are still listed, in that order
C3_Witness ==
    \E s \in Slots :
        LET h == inflight[s] IN
        /\ h.resp = "OK" /\ IsCall(h, "deleteFile") /\ h.ret = "true"
        /\ h.ev.call[1].args.userId = "u"
        /\ h.ev.call[1].args.fileId = IdPool[2]
        /\ ListedIn(h.before, UserFilesKey("u")) = <<IdPool[1], IdPool[2], IdPool[3]>>
        /\ ListedIn(h.before, CategoryKey("photos")) = <<IdPool[1], IdPool[2], IdPool[3]>>
        /\ ListedIn(kv, UserFilesKey("u")) = <<IdPool[1], IdPool[3]>>


\* who asks: the sender of the update, or the requester argument of a direct call
Requester(h) ==
    IF h.ev.type = "call"
    THEN (IF "userId" \in DOMAIN h.ev.call[1].args THEN h.ev.call[1].args.userId ELSE "")
    ELSE h.ev.from

\* the text "confirm" in any case, the button confirm:delete:<id>, or deleteFile itself
IsConfirmation(e) ==
    \/ e.type = "message" /\ e.text # None /\ TrimLower(e.text[1]) = "confirm"
    \/ e.type = "callback" /\ e.data # None /\ Len(e.data[1]) >= 2
          /\ e.data[1][1] = "confirm" /\ e.data[1][2] = "delete"
    \/ e.type = "call" /\ e.call[1].fn = "deleteFile"

OwnerOrAdmin(userId, record) == userId \in {"a"} \/ record.savedBy = userId

\* C4: a record is removed only by a step of a request that is a confirmation
\* (the text confirm, the button confirm:delete, or deleteFile itself) and
\* whose sender is the record's owner or is in ADMIN_IDS; and a request whose
\* deleteFile is for an existing record of which the requester is neither
\* owner nor administrator never gets true from it, gets false when it
\* completes, and leaves the record and both index lists as they were.
C4_DeleteNeedsOwnerOrAdmin ==
    /\ [](\A s \in Slots :
            LET h == inflight[s] IN
            (/\ h.resp # "free" /\ h.dl # None
             /\ getFile(h.before, h.dl[1].fileId) # None
             /\ ~OwnerOrAdmin(h.dl[1].userId, h.before[FileKey(h.dl[1].fileId)]))
            => /\ h.ret # "true"
               /\ h.resp = "OK" => h.ret = "false"
               /\ SameRegistry(h.before, kv))
    /\ [][\A id \in Range(IdPool) :
            (FileKey(id) \in DOMAIN kv /\ FileKey(id) \notin DOMAIN kv')
            => \E s \in Slots :
                  /\ inflight[s] # inflight'[s]
                  /\ IsConfirmation(inflight[s].ev)
                  /\ OwnerOrAdmin(Requester(inflight[s]), kv[FileKey(id)])]_vars

\* C4 witness: user u, neither owner nor administrator, pressed
\* confirm:delete:<id> for a stored record; deleteFile returned false, the
\* failure was reported and the record is still there
C4_Witness ==
    \E s \in Slots, id \in FileIds :
        LET h == inflight[s] IN
        /\ h.resp = "OK" /\ h.ev = CallbackQuery("u", Some(<<"confirm", "delete", id>>), TRUE)
        /\ h.ret = "false"
        /\ getFile(kv, id) # None /\ kv[FileKey(id)].savedBy = "a"
        /\ Last(h.calls).call.text = "Failed to delete the file."

\* the step creates a file record or puts an id on an index list
Creates(k) ==
    /\ k \in DOMAIN kv'
    /\ \/ k[1] = "file:" /\ k \notin DOMAIN kv
       \/ k[1] \in {"user:files:", "category:"}
             /\ ~(Range(kv'[k]) \subseteq Range(OrEmpty(DbGet(kv, k))))

\* C5: no request of a sender outside ADMIN_IDS creates a file record or an
\* index entry: such a sender is never asked for a category, none of its
\* requests reaches saveFile, its /save is answered with the unauthorized
\* message and nothing else, and every step that creates a record or an index
\* entry belongs to a request of an administrator.
C5_OnlyAdminsSave ==
    /\ [](/\ \A u \in Users \ {"a"} : StateOf(kv, u) # "awaiting_file_category"
          /\ \A s \in Slots :
                LET h == inflight[s] IN
                /\ (h.resp # "free" /\ h.sv # None) => h.ev.from \in {"a"}
                /\ (/\ Finished(h) /\ h.ev.type = "message" /\ h.ev.from \notin {"a", ""}
                    /\ CommandOf(h.ev).command = "save")
                   => /\ Len(h.calls) = 1
                      /\ h.calls[1].call.m = "sendMessage"
                      /\ h.calls[1].call.to = h.ev.from
                      /\ h.calls[1].call.text = "Unauthorized. Only admins can save files."
                      /\ SameRegistry(h.before, kv))
    /\ [][\A k \in DOMAIN kv' :
            Creates(k) => \E s \in Slots : /\ inflight[s] # inflight'[s]
                                           /\ inflight[s].ev.from \in {"a"}]_vars

\* C5 witness: user u replied /save to a document while records exist, and
\* was sent the unauthorized message
C5_Witness ==
    \E s \in Slots :
        LET h == inflight[s] IN
        /\ h.resp = "OK" /\ h.ev = Message("u", Cmd("save"), None, Some(Some(Doc)))
        /\ h.calls[1].call.text = "Unauthorized. Only admins can save files."
        /\ RegistryKeys(kv) # {}

\* C6 (refuted): once nothing is in progress, a record that was never deleted
\* has counted every completed trackFileAccess: accessCount = the number of
\* calls that completed on it
C6_CountsEveryRetrieval ==
    \A id \in FileIds :
        (Quiet /\ id \notin gone /\ getFile(kv, id) # None)
        => kv[FileKey(id)].accessCount = hits[id]

\* C7 (refuted): an id for which deleteFile has returned true resolves to no record
C7_DeletedStaysAbsent == \A id \in gone : getFile(kv, id) = None

\* C8 (refuted): while no request is in progress (so no saveFile or deleteFile is
\* part-way through its writes), every id on an index list resolves to a record
C8_IndexesResolve ==
    Quiet => \A k \in IndexKeys(kv) : \A id \in Range(kv[k]) : getFile(kv, id) # None

\* the payloads file:share, file:delete, file:list, page:files, category:<name>,
\* delete:<id>, confirm:delete:<id>, confirm:cancel, or an unknown action
ListedPayload(data) ==
    /\ data[1] = "file" => Len(data) >= 2 /\ data[2] \in {"share", "delete", "list"}
    /\ data[1] = "page" => Len(data) >= 2 /\ data[2] = "files"
    /\ data[1] = "confirm" => Len(data) >= 2 /\ data[2] \in {"delete", "cancel"}

\* C9 (refuted): for a callback query with one of the listed payloads that was
\* processed to the end, answerCallbackQuery was invoked exactly once
C9_AnsweredOnce ==
    \A s \in Slots :
        LET h == inflight[s] IN
        (/\ h.resp = "OK" /\ h.ev.type = "callback"
         /\ h.ev.data # None /\ ListedPayload(h.ev.data[1]))
        => AnswerCount(h) = 1

\* C10 (refuted): a POST whose body is a message or a callback query with its
\* sender (and, for a callback query, its message) ends with the response "OK",
\* whatever the outbound calls did
C10_AlwaysOK ==
    \A s \in Slots :
        LET h == inflight[s] IN
        (/\ Finished(h) /\ h.ev.type \in {"message", "callback"}
         /\ h.ev.from # "" /\ (h.ev.type = "callback" => h.ev.msg))
        => h.resp = "OK"

\* the Messenger operation that delivers each kind
MethodFor ==
    [document |-> "sendDocument", photo |-> "sendPhoto", video |-> "sendVideo",
     audio |-> "sendAudio", voice |-> "sendVoice", animation |-> "sendAnimation"]

RecognizedKinds == {"document", "photo", "video", "audio", "voice", "animation"}

\* the request is the message "/start post=<id>" and, when it arrived, id was
\* the id of a record of a recognised kind
RetrievesRecognized(h, id) ==
    /\ h.resp # "free" /\ h.ev.type = "message" /\ h.ev.from # ""
    /\ Retrieves(h.ev, id)
    /\ getFile(h.before, id) # None
    /\ h.before[FileKey(id)].file_type \in RecognizedKinds

\* the one outbound call is the send operation of the record's kind, to the sender
SentStored(h, id) ==
    LET r == h.before[FileKey(id)] IN
    /\ Len(h.calls) = 1
    /\ h.calls[1].call.m = MethodFor[r.file_type]
    /\ h.calls[1].call.to = h.ev.from
    /\ h.calls[1].call.file = r.file_id

\* C11 (as stated, refuted): whatever the sender's session state, a handled
\* "/start post=<id>" for a stored record of a recognised kind has made exactly
\* one outbound call, the send operation of the record's kind to the sender,
\* after trackFileAccess has counted the retrieval
C11_RetrievesInAnyState ==
    \A s \in Slots : \A id \in Range(IdPool) :
        LET h == inflight[s] IN
        (RetrievesRecognized(h, id) /\ h.resp = "OK")
        => /\ SentStored(h, id)
           /\ kv[FileKey(id)].accessCount = h.before[FileKey(id)].accessCount + 1

\* C11 (amended): when the sender's session is idle, a "/start post=<id>" for a
\* stored record of a recognised kind makes no outbound call before
\* trackFileAccess has counted the retrieval, and once handled it has made
\* exactly one, the send operation of the record's kind to the sender's chat,
\* whether or not the sender is an administrator
C11_RetrievesWhenIdle ==
    \A s \in Slots : \A id \in Range(IdPool) :
        LET h == inflight[s] IN
        (RetrievesRecognized(h, id) /\ StateOf(h.before, h.ev.from) = "idle")
        => /\ Len(h.calls) <= 1
           /\ ((Running(h) /\ h.pc # <<>> /\ Op(h) \in TgOps) \/ h.calls # <<>>)
              => kv[FileKey(id)].accessCount = h.before[FileKey(id)].accessCount + 1
           /\ Finished(h) => SentStored(h, id)

\* C11 witness: user u, who is no administrator and has no session yet, has
\* been sent a stored animation by sendAnimation
C11_Witness ==
    \E s \in Slots :
        LET h == inflight[s] IN
        /\ h.resp = "OK" /\ h.ev.from = "u" /\ Retrieves(h.ev, IdPool[1])
        /\ SessionKey("u") \notin DOMAIN h.before
        /\ h.before[FileKey(IdPool[1])].file_type = "animation"
        /\ Len(h.calls) = 1 /\ h.calls[1].call.m = "sendAnimation"
        /\ h.calls[1].call.file = "animation-1"

\* the state and data of the user's session, those of a new session when none is stored
SessionView(store, userId) ==
    IF SessionKey(userId) \in DOMAIN store
    THEN [state |-> store[SessionKey(userId)].state, data |-> store[SessionKey(userId)].data]
    ELSE [state |-> "idle", data |-> <<>>]

\* the file id the request refers to: the post id of /start, the argument of
\* /delete, the id of a file:share, file:delete, delete or confirm:delete button
ReferredIds(e) ==
    IF e.type = "message"
    THEN (IF CommandOf(e).command = "start" /\ CommandOf(e).key = "post=" /\ CommandOf(e).val # ""
          THEN {CommandOf(e).val}
          ELSE IF CommandOf(e).command = "delete" /\ CommandOf(e).args # ""
          THEN {CommandOf(e).args}
          ELSE {})
    ELSE IF e.type = "callback" /\ e.data # None
    THEN LET d == e.data[1] IN
         IF Len(d) = 3 /\ d[1] = "file" /\ d[2] \in {"share", "delete"} THEN {d[3]}
         ELSE IF Len(d) = 2 /\ d[1] = "delete" THEN {d[2]}
         ELSE IF Len(d) = 3 /\ d[1] = "confirm" /\ d[2] = "delete" THEN {d[3]}
         ELSE {}
    ELSE {}

\* the request refers to a file id that resolved to no record when it arrived
\* (a message counts when the sender was idle), or it is a category button
\* pressed while the sender was not asked for a category
RefersToNothing(h) ==
    /\ h.resp # "free" /\ h.ev.type \in {"message", "callback"} /\ h.ev.from # ""
    /\ \/ /\ h.ev.type = "message" => SessionView(h.before, h.ev.from).state = "idle"
          /\ \E id \in ReferredIds(h.ev) : getFile(h.before, id) = None
       \/ /\ h.ev.type = "callback" /\ h.ev.data # None /\ Head(h.ev.data[1]) = "category"
          /\ SessionView(h.before, h.ev.from).state # "awaiting_file_category"

\* C12: from its arrival to its end, a request that refers to a file id that
\* does not resolve, or presses a category button while the sender is not
\* asked for a category, leaves every file record and every index list as
\* they were, and the sender's session state and data as they were
C12_NotFoundChangesNothing ==
    \A s \in Slots :
        LET h == inflight[s] IN
        RefersToNothing(h)
        => /\ SameRegistry(h.before, kv)
           /\ SessionView(kv, h.ev.from) = SessionView(h.before, h.ev.from)

\* C12 witness: the administrator asked to delete an id that had been deleted
\* before, while another record was stored, and was told "File not found."
C12_Witness ==
    \E s \in Slots, id \in gone :
        LET h == inflight[s] IN
        /\ h.resp = "OK" /\ h.ev = Message("a", CmdArg("delete", id), None, None)
        /\ Last(h.calls).call.text = "File not found."
        /\ RegistryKeys(kv) # {}
        /\ SessionView(kv, "a").state = "idle"

\* the request is the text "cancel" of a user whose "/delete <id>" had put the
\* session in awaiting_delete_confirm for a record that is still stored
CancelsDeletion(h, id) ==
    /\ h.resp # "free" /\ h.ev.type = "message" /\ h.ev.from # ""
    /\ h.ev.text # None /\ Raw(h.ev.text[1]) = "cancel"
    /\ SessionView(h.before, h.ev.from) = [state |-> "awaiting_delete_confirm",
                                           data |-> [fileId |-> id]]
    /\ getFile(h.before, id) # None

\* C13: when the text "cancel" that follows a user's "/delete <id>" has been
\* handled, the record and every index list are as they were, id is still on
\* its owner's list and on its category's list, and the user's session is idle
\* with empty data; the record and the lists are untouched throughout
C13_CancelKeepsFile ==
    \A s \in Slots : \A id \in Range(IdPool) :
        LET h == inflight[s] IN
        CancelsDeletion(h, id)
        => /\ SameRegistry(h.before, kv)
           /\ getFile(kv, id) # None
           /\ id \in Range(kv[UserFilesKey(kv[FileKey(id)].savedBy)])
           /\ id \in Range(kv[CategoryKey(kv[FileKey(id)].category)])
           /\ Finished(h) => SessionView(kv, h.ev.from) = [state |-> "idle", data |-> <<>>]

\* C13 witness: the administrator typed cancel after /delete <id>; the bot
\* answered that the deletion was canceled, the record is stored and the
\* session is idle
C13_Witness ==
    \E s \in Slots, id \in FileIds :
        LET h == inflight[s] IN
        /\ h.resp = "OK" /\ CancelsDeletion(h, id)
        /\ Last(h.calls).call.text = "File deletion canceled."
        /\ getFile(kv, id) # None
        /\ kv[SessionKey(h.ev.from)].state = "idle"

\* the page the request asks for: 1 for /files, p for the button page:files:<p>;
\* 0 for any other request
RequestedPage(e) ==
    IF e.type = "message" /\ CommandOf(e).command = "files" THEN 1
    ELSE IF e.type = "callback" /\ e.data # None
            /\ \E p \in 1..4 : e.data[1] = <<"page", "files", ToString(p)>>
    THEN CHOOSE p \in 1..4 : e.data[1] = <<"page", "files", ToString(p)>>
    ELSE 0

\* the navigation buttons among the buttons of a call
PageButtons(kb) ==
    SelectSeq(kb, LAMBDA b : b \in {"page:files:" \o ToString(q) : q \in 0..5})

\* the list the request has rendered: the text of /files, or the edited list
RenderedList(h) ==
    /\ h.calls # <<>>
    /\ Last(h.calls).call.text = "Your Files"
    /\ Last(h.calls).call.m
          = (IF h.ev.type = "message" THEN "sendMessage" ELSE "editMessageText")

\* C14: with n >= 1 files on the caller's index and a requested page p with
\* 1 <= p <= ceil(n/5), the page rendered by /files or by page:files:<p>
\* numbers its items from (p-1)*5+1, shows exactly the files at the index
\* positions (p-1)*5+1 .. min(5p, n) in index order, each with its share and
\* delete button, then "previous" (to page p-1) iff p > 1 and "next" (to page
\* p+1) iff p < ceil(n/5); and a request for such a page that ends with OK has
\* rendered it
C14_PagesOfFive ==
    \A s \in Slots :
        LET h == inflight[s]
            index == OrEmpty(DbGet(h.before, UserFilesKey(h.ev.from)))
            n == Len(index)
            p == RequestedPage(h.ev)
            pages == (n + 4) \div 5
            first == (p - 1) * 5 + 1
            last == IF 5 * p < n THEN 5 * p ELSE n
            shown == Last(h.calls).call
        IN (h.resp # "free" /\ h.ev.from # "" /\ n >= 1 /\ 1 <= p /\ p <= pages)
           => /\ h.resp = "OK" => RenderedList(h)
              /\ RenderedList(h)
                 => /\ shown.to = h.ev.from
                    /\ shown.n0 = first
                    /\ shown.items = SubSeq(index, first, last)
                    /\ \A i \in 1..(last - first + 1) :
                          /\ shown.kb[2 * i - 1] = "file:share:" \o index[first + i - 1]
                          /\ shown.kb[2 * i] = "file:delete:" \o index[first + i - 1]
                    /\ PageButtons(shown.kb)
                          = (IF p > 1 THEN <<"page:files:" \o ToString(p - 1)>> ELSE <<>>)
                            \o (IF p < pages THEN <<"page:files:" \o ToString(p + 1)>> ELSE <<>>)
                    /\ Len(shown.kb) = 2 * (last - first + 1) + Len(PageButtons(shown.kb))

\* C14 witness: with 7 files, the button page:files:2 has rendered items 6 and
\* 7 with a "previous" button to page 1 and no "next" button
C14_Witness ==
    \E s \in Slots :
        LET h == inflight[s] IN
        /\ h.resp = "OK"
        /\ h.ev = CallbackQuery("a", Some(<<"page", "files", "2">>), TRUE)
        /\ Len(OrEmpty(DbGet(h.before, UserFilesKey("a")))) = 7
        /\ RenderedList(h)
        /\ Last(h.calls).call.items = <<IdPool[6], IdPool[7]>>
        /\ Last(h.calls).call.n0 = 6
        /\ PageButtons(Last(h.calls).call.kb) = <<"page:files:1">>

StoredIds(store) == {k[2] : k \in {k \in DOMAIN store : k[1] = "file:"}}

\* C20 (refuted): when an administrator's /stats has been handled, the files
\* it lists are at most 5 stored files, in descending order of accessCount,
\* and no stored file that is left out has a strictly higher accessCount than
\* a listed one, however many files are stored
C20_TopFiveOfAll ==
    \A s \in Slots :
        LET h == inflight[s]
            listed == Last(h.calls).call.items
            count(id) == h.before[FileKey(id)].accessCount
        IN (/\ h.resp = "OK" /\ h.ev.type = "message" /\ h.ev.from \in {"a"}
            /\ CommandOf(h.ev).command = "stats")
           => /\ Last(h.calls).call.text = "Bot Statistics"
              /\ Len(listed) <= 5
              /\ Range(listed) \subseteq StoredIds(h.before)
              /\ \A i, j \in DOMAIN listed : i < j => count(listed[i]) >= count(listed[j])
              /\ \A f \in StoredIds(h.before) \ Range(listed) :
                    \A g \in Range(listed) : count(f) <= count(g)

\* C15: when setState(userId, newState, data) has returned, the stored session
\* has state newState and a data object with exactly the keys and values of
\* the data passed in, whatever the previous data held; its userId is userId;
\* its createdAt is that of the session stored before the call, or the time
\* of the call when there was none; its lastActive is not before its createdAt
C15_SetStateReplaces ==
    \A s \in Slots :
        LET h == inflight[s] IN
        (h.resp = "OK" /\ IsCall(h, "setState"))
        => LET a == h.ev.call[1].args
               K == SessionKey(a.userId)
           IN /\ K \in DOMAIN kv
              /\ kv[K].state = a.state
              /\ DOMAIN kv[K].data = DOMAIN a.data
              /\ \A k \in DOMAIN a.data : kv[K].data[k] = a.data[k]
              /\ kv[K].userId = a.userId
              /\ K \in DOMAIN h.before => kv[K].createdAt = h.before[K].createdAt
              /\ kv[K].createdAt \in 0..now
              /\ kv[K].lastActive \in kv[K].createdAt..now
              /\ DOMAIN kv[K] = {"userId", "state", "data", "createdAt", "lastActive"}

\* C15 witness: a session that was awaiting_file_category with messageId and
\* fileData has been set to awaiting_delete_confirm with fileId alone, later
\* than it was created
C15_Witness ==
    \E s \in Slots :
        LET h == inflight[s] IN
        /\ h.resp = "OK" /\ IsCall(h, "setState")
        /\ h.ev.call[1].args = [userId |-> "u", state |-> "awaiting_delete_confirm",
                                data |-> [fileId |-> IdPool[1]]]
        /\ SessionKey("u") \in DOMAIN h.before
        /\ h.before[SessionKey("u")].state = "awaiting_file_category"
        /\ DOMAIN h.before[SessionKey("u")].data = {"messageId", "fileData"}
        /\ kv[SessionKey("u")].data = [fileId |-> IdPool[1]]
        /\ kv[SessionKey("u")].createdAt < kv[SessionKey("u")].lastActive

\* a cancel in one of its forms: a text the command parser reads as the
\* command cancel, the plain text cancel, or the button category:cancel
IsCancel(e) ==
    \/ e.type = "message" /\ CommandOf(e).command = "cancel"
    \/ e.type = "message" /\ e.text # None /\ Raw(e.text[1]) = "cancel"
    \/ e.type = "callback" /\ e.data = Some(<<"category", "cancel">>) /\ e.msg

\* C16 (refuted): when a cancel, in any of its forms, of a user who was asked
\* for a category has been handled, the user's session is idle with empty
\* data and no file record has been created
C16_CancelSavesNothing ==
    \A s \in Slots :
        LET h == inflight[s] IN
        (/\ h.resp = "OK" /\ h.ev.from # "" /\ IsCancel(h.ev)
         /\ SessionView(h.before, h.ev.from).state = "awaiting_file_category")
        => /\ SessionView(kv, h.ev.from) = [state |-> "idle", data |-> <<>>]
           /\ StoredIds(kv) = StoredIds(h.before)

\* the message lacks a field its handler reads: it has no sender, or it has
\* no text while the sender's session awaits a category or a confirmation
LacksField(h) ==
    /\ h.ev.type = "message"
    /\ \/ h.ev.from = ""
       \/ /\ h.ev.text = None
          /\ SessionView(h.before, h.ev.from).state
                \in {"awaiting_file_category", "awaiting_delete_confirm"}

\* C18 (refuted): a message that lacks an expected field ends with the
\* response "OK", the last outbound call being the apology
C18_MalformedIsApologized ==
    \A s \in Slots :
        LET h == inflight[s] IN
        (Finished(h) /\ LacksField(h))
        => /\ h.resp = "OK"
           /\ h.calls # <<>>
           /\ Last(h.calls).call.m = "sendMessage"
           /\ Last(h.calls).call.text = "Sorry, an error occurred while processing your request."

\* the idle sender's "/start post=<id>" hits a stored record whose file_type
\* is none of the six kinds
RetrievesUnsupported(h) ==
    /\ h.ev.type = "message" /\ h.ev.from # ""
    /\ SessionView(h.before, h.ev.from).state = "idle"
    /\ \E id \in Range(IdPool) :
          /\ Retrieves(h.ev, id)
          /\ getFile(h.before, id) # None
          /\ h.before[FileKey(id)].file_type \notin RecognizedKinds

\* the idle administrator's /save replies to a message without a recognised attachment
SavesUnsupported(h) ==
    /\ h.ev.type = "message" /\ h.ev.from \in {"a"}
    /\ SessionView(h.before, h.ev.from).state = "idle"
    /\ CommandOf(h.ev).command = "save"
    /\ h.ev.reply \in {Some(None), Some(Some(Sticker))}

\* C19 (refuted): when a retrieval of a record of an unsupported kind, or a
\* /save in reply to a message without a recognised attachment, has been
\* handled, the user has been told so, every file record and index list is as
\* it was (accessCount and lastAccessed included) and so is the session
C19_UnsupportedChangesNothing ==
    \A s \in Slots :
        LET h == inflight[s] IN
        (h.resp = "OK" /\ (RetrievesUnsupported(h) \/ SavesUnsupported(h)))
        => /\ Last(h.calls).call.text
                 = (IF SavesUnsupported(h) THEN "No valid file found in the replied message."
                    ELSE "Unsupported file type.")
           /\ SameRegistry(h.before, kv)
           /\ SessionView(kv, h.ev.from) = SessionView(h.before, h.ev.from)

\* the session documents of the namespace
SessionKeys == {k \in DOMAIN kv : k[1] = "session:"}

\* what promptToSaveFile and handleSave put in a session: the data of an
\* attachment of one of the six kinds
FileDatas == {extractFileData(Some(a))[1] : a \in {Doc, Photo}}

\* C17: in every reachable state, however the handlers of concurrent updates
\* interleave, each user has one session document at most (the document
\* under a user's session key is that user's, and every session document is
\* under the key of its user); its state is idle, awaiting_file_category or
\* awaiting_delete_confirm; when it is awaiting_file_category its data is
\* fileData, the data of an attachment, and messageId; when it is
\* awaiting_delete_confirm its data is a fileId
C17_SessionsWellFormed ==
    \A k \in SessionKeys :
        LET session == kv[k] IN
        /\ k = SessionKey(session.userId)
        /\ session.state \in SessionStates
        /\ session.state = "awaiting_file_category"
             => /\ DOMAIN session.data = {"fileData", "messageId"}
                /\ session.data.fileData \in FileDatas
                /\ session.data.messageId \in {MessageIdOf(Some(Doc)), MessageIdOf(Some(Photo))}
        /\ session.state = "awaiting_delete_confirm"
             => /\ DOMAIN session.data = {"fileId"}
                /\ session.data.fileId # ""

\* C17 witness: a lost update.  An attachment and /delete arrived while the
\* session was idle and were handled together; /delete has asked for the
\* confirmation, and the session stored is the one the attachment's handler
\* wrote over it, awaiting_file_category with fileData and messageId
C17_Witness ==
    \E s, t \in Slots :
        LET h == inflight[s]
            g == inflight[t]
        IN /\ s # t
           /\ h.resp = "OK" /\ h.ev.type = "message" /\ CommandOf(h.ev).command = "delete"
           /\ \E i \in DOMAIN h.calls :
                 h.calls[i].call.text = "Are you sure you want to delete this file?"
           /\ g # Free /\ g.ev.type = "message" /\ g.ev.att # None
           /\ StateOf(h.before, "a") = "idle" /\ StateOf(g.before, "a") = "idle"
           /\ kv[SessionKey("a")].state = "awaiting_file_category"
           /\ kv[SessionKey("a")].data.fileData = extractFileData(Some(Photo))[1]

\* the request is a message with an attachment and no text, from a user whose
\* session was idle
SendsAttachment(h) ==
    /\ Finished(h) /\ h.ev.type = "message" /\ h.ev.from # ""
    /\ hasAttachment(h.ev.att) /\ h.ev.text = None
    /\ SessionView(h.before, h.ev.from).state = "idle"

\* C21: when a message that carries an attachment and no command, sent by a
\* user whose session is idle, has been handled, no record and no index list
\* has been stored or changed; if the sender is an administrator the session
\* is awaiting_file_category and its data is the metadata extracted from the
\* attachment with the id of the message; if not, the session is idle with
\* the data it had
C21_AttachmentAsksCategory ==
    \A s \in Slots :
        LET h == inflight[s] IN
        SendsAttachment(h)
        => /\ SameRegistry(h.before, kv)
           /\ isAdmin(h.ev.from)
                => SessionView(kv, h.ev.from)
                   = [state |-> "awaiting_file_category",
                      data |-> [messageId |-> MessageIdOf(h.ev.att),
                                fileData |-> extractFileData(h.ev.att)[1]]]
           /\ ~isAdmin(h.ev.from)
                => SessionView(kv, h.ev.from) = [state |-> "idle", data |-> EmptyObj]

\* C21 witness: the administrator has sent a photo while a record was stored
\* and has been asked for its category
C21_Witness ==
    \E s \in Slots :
        LET h == inflight[s] IN
        /\ SendsAttachment(h) /\ h.resp = "OK" /\ h.ev.from = "a"
        /\ h.ev.att = Some(Photo)
        /\ Last(h.calls).call.text = "I noticed you sent a file."
        /\ RegistryKeys(kv) # {}
        /\ SessionView(kv, "a").state = "awaiting_file_category"

\* the request is a press of a category:<name> button
PressesCategory(e) ==
    /\ e.type = "callback" /\ e.from # "" /\ e.msg /\ e.data # None
    /\ Len(e.data[1]) = 2 /\ e.data[1][1] = "category"

\* the request names a category, as a text or through a button, and is no cancel
NamesCategory(e) ==
    \/ /\ e.type = "message" /\ e.from # "" /\ e.text # None
       /\ ToLowerCase(e.text[1]) # "/cancel" /\ TrimLower(e.text[1]) # "cancel"
    \/ PressesCategory(e) /\ e.data[1][2] # "cancel"

\* the category it names
NamedCategory(e) == IF e.type = "message" THEN Trim(e.text[1]) ELSE e.data[1][2]

\* the file records of the second store that the first does not have
NewFiles(old, new) == {k \in DOMAIN new : k[1] = "file:"} \ DOMAIN old

\* list is the index list stored before under key, with id added at its end
Appended(old, key, list, id) == list = Append(OrEmpty(DbGet(old, key)), id)

\* C22: with requests handled one at a time and Telegram answering, when a
\* user whose session is awaiting_file_category has named a category, by a
\* text or by a category:<name> button other than cancel, exactly one record
\* has been created: it holds the fileData of the session, savedBy the
\* sender, the category named and accessCount 0, its id has been added at
\* the end of the sender's list and of the category's list, nothing else of
\* the registry has changed, and the session is idle with empty data.  A
\* category button pressed by a user whose session is not
\* awaiting_file_category (as after that save) changes neither the registry
\* nor the session.
C22_CategorySavesOnce ==
    \A s \in Slots :
        LET h == inflight[s]
            u == h.ev.from
        IN /\ (/\ h.resp = "OK" /\ NamesCategory(h.ev)
               /\ SessionView(h.before, u).state = "awaiting_file_category")
              => LET category == NamedCategory(h.ev)
                     fileData == SessionView(h.before, u).data.fileData
                     new == NewFiles(h.before, kv)
                 IN /\ Cardinality(new) = 1
                    /\ new = {FileKey(h.newId)}
                    /\ kv[FileKey(h.newId)]
                          = FileObject(h.newId, fileData, u, category,
                                       kv[FileKey(h.newId)].createdAt)
                    /\ Appended(h.before, UserFilesKey(u), kv[UserFilesKey(u)], h.newId)
                    /\ Appended(h.before, CategoryKey(category), kv[CategoryKey(category)],
                                h.newId)
                    /\ \A k \in RegistryKeys(kv) \ {FileKey(h.newId), UserFilesKey(u),
                                                     CategoryKey(category)} :
                          k \in DOMAIN h.before /\ kv[k] = h.before[k]
                    /\ RegistryKeys(h.before) \subseteq RegistryKeys(kv)
                    /\ SessionView(kv, u) = [state |-> "idle", data |-> EmptyObj]
           /\ (/\ Finished(h) /\ PressesCategory(h.ev)
               /\ SessionView(h.before, u).state # "awaiting_file_category")
              => /\ SameRegistry(h.before, kv)
                 /\ SessionView(kv, u) = SessionView(h.before, u)

\* C22 witness: the administrator pressed category:documents a second time,
\* after the first press had saved the pending file, and was told that the
\* action is no longer valid
C22_Witness ==
    \E s \in Slots :
        LET h == inflight[s] IN
        /\ h.resp = "OK" /\ PressedCategoryDocuments(h)
        /\ SessionView(h.before, "a").state = "idle"
        /\ Last(h.calls).call.text = "This action is no longer valid."
        /\ \E id \in Range(IdPool) :
              /\ getFile(kv, id) # None
              /\ kv[FileKey(id)].category = "documents"
              /\ kv[FileKey(id)].savedBy = "a"
              /\ kv[CategoryKey("documents")] = <<id>>

\* the request is a confirmation of the deletion of id, as the text "confirm"
\* or as the button confirm:delete:<id>, by a user whose session was
\* awaiting_delete_confirm for id
ConfirmsDeletion(h, id) ==
    /\ h.resp = "OK" /\ h.ev.from # ""
    /\ \/ h.ev.type = "message" /\ h.ev.text # None /\ TrimLower(h.ev.text[1]) = "confirm"
       \/ h.ev.type = "callback" /\ h.ev.msg /\ h.ev.data = Some(<<"confirm", "delete", id>>)
    /\ SessionView(h.before, h.ev.from) = [state |-> "awaiting_delete_confirm",
                                           data |-> [fileId |-> id]]

\* C23: when a confirmation received in awaiting_delete_confirm, as the text
\* "confirm" or as the button confirm:delete:<id> of the pending file, has
\* been handled, deleteFile has been called for the pending file by the
\* sender and the sender's session is idle
C23_ConfirmDeletesAndIdles ==
    \A s \in Slots, id \in QuotedIds :
        LET h == inflight[s] IN
        ConfirmsDeletion(h, id)
        => /\ h.dl = Some([fileId |-> id, userId |-> h.ev.from])
           /\ h.ret # ""
           /\ SessionView(kv, h.ev.from).state = "idle"

\* the request is a message that is no confirmation, from a user whose
\* session was awaiting_delete_confirm for the stored record id, and its
\* handling is over
DeclinesDeletion(h, id) ==
    /\ Finished(h) /\ h.ev.type = "message" /\ h.ev.from # ""
    /\ (h.ev.text # None => TrimLower(h.ev.text[1]) # "confirm")
    /\ SessionView(h.before, h.ev.from) = [state |-> "awaiting_delete_confirm",
                                           data |-> [fileId |-> id]]
    /\ getFile(h.before, id) # None

\* C24: when a message that is no confirmation (another text, a command, or
\* a message without text), received in awaiting_delete_confirm, has been
\* handled, the pending record is stored as it was and the sender's session
\* is idle
C24_AnythingElseCancels ==
    \A s \in Slots, id \in FileIds :
        LET h == inflight[s] IN
        DeclinesDeletion(h, id)
        => /\ getFile(kv, id) = getFile(h.before, id)
           /\ SessionView(kv, h.ev.from).state = "idle"

\* the request is "/delete", with or without an id, from a user whose session
\* was idle, and its handling is over
AsksToDelete(h) ==
    /\ Finished(h) /\ h.ev.type = "message" /\ h.ev.from # ""
    /\ CommandOf(h.ev).command = "delete"
    /\ SessionView(h.before, h.ev.from).state = "idle"

\* the id resolved to a record when the request arrived, and the user is its
\* owner or an administrator
MayAskToDelete(store, userId, id) ==
    /\ id # "" /\ getFile(store, id) # None
    /\ (isAdmin(userId) \/ store[FileKey(id)].savedBy = userId)

\* C25: when "/delete <id>" from a user whose session is idle has been
\* handled, the session is awaiting_delete_confirm with data {fileId: id} if
\* id resolved to a record and the user is its owner or an administrator,
\* and has the state and data it had if not (no id given, no such record, or
\* no permission); in both cases every record and index list is as it was
C25_DeleteAsksFirst ==
    \A s \in Slots :
        LET h == inflight[s]
            u == h.ev.from
            id == CommandOf(h.ev).args
        IN AsksToDelete(h)
           => /\ SameRegistry(h.before, kv)
              /\ SessionView(kv, u)
                   = IF MayAskToDelete(h.before, u, id)
                     THEN [state |-> "awaiting_delete_confirm", data |-> [fileId |-> id]]
                     ELSE SessionView(h.before, u)

\* C25 witness: the other user asked to delete a record of the administrator
\* and was refused, the session staying idle
C25_Witness ==
    \E s \in Slots, id \in FileIds :
        LET h == inflight[s] IN
        /\ AsksToDelete(h) /\ h.resp = "OK" /\ h.ev.from = "u"
        /\ CommandOf(h.ev).args = id
        /\ getFile(kv, id) # None /\ kv[FileKey(id)].savedBy = "a"
        /\ Last(h.calls).call.text = "You don't have permission to delete this file."
        /\ SessionView(kv, "u").state = "idle"

\* the request is a message whose text parses as a command that is none of
\* the seven, from a user whose session was idle; its handling is over and
\* no call to Telegram has failed
SendsUnknownCommand(h) ==
    /\ Finished(h) /\ h.ev.type = "message" /\ h.ev.from # ""
    /\ parseCommand(h.ev.text) # None
    /\ parseCommand(h.ev.text)[1].command \notin Commands
    /\ SessionView(h.before, h.ev.from).state = "idle"
    /\ \A i \in DOMAIN h.calls : h.calls[i].ok

\* C26: when a message whose text parses as a command outside start, help,
\* save, files, delete, stats and cancel, from a user whose session is idle,
\* has been handled, the bot has answered it with the not-recognized message
\* and nothing else, and the session's state and data, every record and
\* every index list are as they were
C26_UnknownCommandIsRefused ==
    \A s \in Slots :
        LET h == inflight[s] IN
        SendsUnknownCommand(h)
        => /\ h.resp = "OK"
           /\ Len(h.calls) = 1
           /\ h.calls[1].call.m = "sendMessage"
           /\ h.calls[1].call.to = h.ev.from
           /\ h.calls[1].call.text = "Unrecognized command"
           /\ SameRegistry(h.before, kv)
           /\ SessionView(kv, h.ev.from) = SessionView(h.before, h.ev.from)

\* the request is getUserFiles or getFilesByCategory, invoked directly
IsListing(h) == IsCall(h, "getUserFiles") \/ IsCall(h, "getFilesByCategory")

\* the ids of the index list at key that resolve to no record
Dangling(store, key) ==
    {id \in Range(OrEmpty(DbGet(store, key))) : getFile(store, id) = None}

\* C27: getUserFiles(owner) and getFilesByCategory(category), invoked one at
\* a time, write nothing while they run, and return normally the records of
\* the ids of the index list that resolve, in the order of the list, the ids
\* without a record left out
C27_ListsWhatResolves ==
    \A s \in Slots :
        LET h == inflight[s] IN
        /\ (h.resp # "free" /\ IsListing(h)) => kv = h.before /\ h.resp \in {"", "OK"}
        /\ (Finished(h) /\ IsListing(h))
           => /\ NonNull(h.acc) = Listing(h.before, h.lkey)
              /\ Len(h.acc) = Len(OrEmpty(DbGet(h.before, h.lkey)))

\* C27 witness: getUserFiles has returned two records, in the order of a
\* list of three ids of which the second resolves to nothing
C27_Witness ==
    \E s \in Slots :
        LET h == inflight[s]
            ids == OrEmpty(DbGet(kv, h.lkey))
        IN /\ h.resp = "OK" /\ IsCall(h, "getUserFiles")
           /\ Len(ids) = 3 /\ Dangling(kv, h.lkey) = {ids[2]}
           /\ Len(NonNull(h.acc)) = 2
           /\ NonNull(h.acc)[1].id = ids[1] /\ NonNull(h.acc)[2].id = ids[3]

\* the step is the write of updateSession of the request in slot s
WritesSession(s) ==
    /\ Running(inflight[s]) /\ inflight[s].pc # <<>> /\ Op(inflight[s]) = "us_set"
    /\ inflight'[s] # inflight[s]

\* C28: with two updates of one user handled concurrently, the write of
\* updateSession stores the session the request computed from its own read:
\* the state and data it set and the createdAt it read, whatever another
\* request has stored in between; nothing is compared or merged and the
\* request goes on without an error.  The write that lands last therefore
\* replaces the transition stored by the other (C28_Witness is such a state).
C28_LastWriterWins ==
    [][\A s \in Slots :
          WritesSession(s)
          => LET h == inflight[s]
                 K == SessionKey(h.uid)
             IN /\ K \in DOMAIN kv'
                /\ kv'[K].state = h.st.state
                /\ kv'[K].data = h.st.data
                /\ kv'[K].createdAt = h.usess[1].createdAt
                /\ inflight'[s].resp # "exception"]_vars

\* C28 witness: "/delete <id>" and an attachment of the administrator were
\* handled together, each from the idle session it had read; both were
\* answered, /delete having stored awaiting_delete_confirm and asked for the
\* confirmation; the session stored is the attachment's, and the pending
\* deletion is lost
C28_Witness ==
    \E s, t \in Slots :
        LET h == inflight[s]
            g == inflight[t]
        IN /\ s # t /\ h.resp = "OK" /\ g.resp = "OK"
           /\ h.ev.type = "message" /\ CommandOf(h.ev).command = "delete"
           /\ g.ev.type = "message" /\ g.ev.att = Some(Photo)
           /\ h.usess # None /\ h.usess[1].state = "idle"
           /\ g.usess # None /\ g.usess[1].state = "idle"
           /\ h.st.state = "awaiting_delete_confirm"
           /\ g.st.state = "awaiting_file_category"
           /\ Last(h.calls).call.text = "Are you sure you want to delete this file?"
           /\ Last(h.calls).ok /\ Last(g.calls).ok
           /\ kv[SessionKey("a")].state = "awaiting_file_category"
           /\ "fileId" \notin DOMAIN kv[SessionKey("a")].data

\* a call of the request to Telegram has failed
HasFailed(h) == h.resp # "free" /\ \E i \in DOMAIN h.calls : ~h.calls[i].ok

\* C29: with requests handled one at a time, once a call to Telegram of a
\* request has failed the request takes no further step: nothing is written
\* to the namespace, so sessions, records and index lists stay as they were
\* when the call was made, and no further call is made, the failed one
\* included; the failed call is the last of the request and the request
\* ends with the exception
C29_FailedCallEndsRequest ==
    /\ [](\A s \in Slots :
            LET h == inflight[s] IN
            HasFailed(h)
            => /\ h.resp = "exception" /\ h.pc = <<>>
               /\ \A i \in DOMAIN h.calls : ~h.calls[i].ok => i = Len(h.calls))
    /\ [][\A s \in Slots :
            /\ HasFailed(inflight[s]) => kv' = kv /\ inflight'[s] \in {inflight[s], Free}
            /\ (~HasFailed(inflight[s]) /\ HasFailed(inflight'[s])) => kv' = kv]_vars

\* C29 witness: the administrator pressed category:documents while asked for
\* a category, answerCallbackQuery failed, and the pending file is not
\* saved and still pending
C29_Witness ==
    \E s \in Slots :
        LET h == inflight[s] IN
        /\ PressedCategoryDocuments(h) /\ h.resp = "exception"
        /\ Len(h.calls) = 1 /\ h.calls[1].call.m = "answerCallbackQuery" /\ ~h.calls[1].ok
        /\ SessionView(h.before, "a").state = "awaiting_file_category"
        /\ kv = h.before

\* what a request leaves behind, the usage statistics aside
Outcome(store) == [k \in DOMAIN store \ {StatsKey} |-> store[k]]

\* the request of a message as it is when trackAction has returned, the
\* statistics it read and the outcome of the recording aside
PastRecorder(h) ==
    [h EXCEPT !.stats = None, !.lost = FALSE]
    = [NewHandler(h.ev) EXCEPT !.pc = <<F("gs_get"), F("route")>>,
                               !.before = h.before, !.ts = h.ts]

\* C30: a request whose usage recording failed (the database threw under
\* trackAction) is handled as one whose recording succeeded.  When
\* trackAction has returned, the request of a message is about to read the
\* session and is in the same state whether the recording failed or not.
\* A request whose recording failed goes on to its handler: a message reads
\* the session, a callback is answered.  It writes no statistics.  And what the flows do holds of every request,
\* recorded or not: an attachment in idle stashes the file and stores
\* nothing (C21), a category in awaiting_file_category saves the stashed
\* file once and idles the session (C22), "/start post=<id>" in idle sends
\* the stored file (C11).
C30_RecorderIsObservational ==
    /\ \A s \in Slots :
          LET h == inflight[s] IN
          (h.resp # "free" /\ h.lost)
          => /\ DbGet(kv, StatsKey) = DbGet(h.before, StatsKey)
             /\ h.ev.type = "message"
                  => \/ Running(h) /\ h.pc # <<>> /\ Op(h) \in {"gs_get", "gs_new"}
                     \/ h.session # None
             /\ h.ev.type = "callback" => h.resp # "exception" /\ (Finished(h) => h.calls # <<>>)
    /\ \A s \in Slots :
          LET h == inflight[s] IN
          (/\ Running(h) /\ h.ev.type = "message" /\ h.pc # <<>>
           /\ Op(h) = "gs_get" /\ h.session = None)
          => PastRecorder(h)
    /\ C21_AttachmentAsksCategory
    /\ C22_CategorySavesOnce
    /\ C11_RetrievesWhenIdle

\* C30 witness: the recording of the administrator's press of
\* category:documents failed; the press has saved the pending file and idled
\* the session, and the statistics are those of before
C30_Witness ==
    \E s \in Slots :
        LET h == inflight[s] IN
        /\ h.lost /\ h.resp = "OK" /\ PressedCategoryDocuments(h)
        /\ SessionView(h.before, "a").state = "awaiting_file_category"
        /\ h.newId # "" /\ getFile(kv, h.newId) # None
        /\ kv[FileKey(h.newId)].category = "documents"
        /\ SessionView(kv, "a").state = "idle"
        /\ DbGet(kv, StatsKey) = DbGet(h.before, StatsKey)
        /\ Outcome(kv) # Outcome(h.before)

----------------------------------------------------------------------------
(* The two users at once: updates of the administrator and of the ordinary *)
(* user arrive while others are being handled, over one stored record of   *)
(* the administrator.  Each update is one that moves an administrator's    *)
(* session out of idle.                                                    *)

PairStores == {Stored(<<"document">>, <<0>>)}

PairUpdates ==
    {Message(u, CmdArg("delete", IdPool[1]), None, None) : u \in Users}
    \cup {Message("u", None, Some(Photo), None),
          Message("u", Cmd("save"), None, Some(Some(Doc))),
          CallbackQuery("u", Some(<<"category", "documents">>), TRUE)}

\* an update arrives while others are being handled; it takes the first free slot
ArrivePair ==
    \E s \in Slots, e \in PairUpdates :
        /\ \A t \in 1..(s - 1) : inflight[t] # Free
        /\ Bounded(e, MaxFiles)
        /\ Accept(s, e)

NextPair ==
    \/ ArrivePair
    \/ Get
    \/ Set
    \/ Send
    \/ Done

SpecPair == InitFrom(PairStores) /\ [][NextPair]_vars

----------------------------------------------------------------------------
(* One pending upload: the administrator has sent a photo and is being     *)
(* asked for its category; nothing else is stored.  The category is then   *)
(* chosen by button and by text, and the choices arrive while others are   *)
(* being handled.                                                          *)

PendingStores ==
    {(SessionKey("a") :>
         updateSession(NewSession("a", 0),
                       setState("awaiting_file_category",
                                [messageId |-> MessageIdOf(Some(Photo)),
                                 fileData |-> extractFileData(Some(Photo))[1]]),
                       0))
     @@ (StatsKey :> trackAction(NoStats, "a", "message"))}

PendingUpdates ==
    {CallbackQuery("a", Some(<<"category", "documents">>), TRUE),
     Message("a", Word("Documents"), None, None)}

\* a choice arrives while others are being handled; it takes the first free slot
ArrivePending ==
    \E s \in Slots, e \in PendingUpdates :
        /\ \A t \in 1..(s - 1) : inflight[t] # Free
        /\ Bounded(e, MaxFiles)
        /\ Accept(s, e)

NextPending ==
    \/ ArrivePending
    \/ Get
    \/ Set
    \/ Send
    \/ Done

SpecPending == InitFrom(PendingStores) /\ [][NextPending]_vars

----------------------------------------------------------------------------
(* Retrievals of one stored record, handled concurrently: deep links       *)
(* opened by the ordinary user and direct trackFileAccess calls, up to     *)
(* MaxRetrievals of them.                                                  *)

MaxRetrievals == 3

CountStores == {Stored(<<"document">>, <<0>>)}

CountUpdates ==
    {Message("u", Some(Txt(TRUE, "start", "", "post=", IdPool[1])), None, None),
     Call("trackFileAccess", [fileId |-> IdPool[1]])}

\* a retrieval arrives while others are being handled; it takes the first free slot
ArriveCount ==
    \E s \in Slots, e \in CountUpdates :
        /\ \A t \in 1..(s - 1) : inflight[t] # Free
        /\ hits[IdPool[1]] + InFlightRetrievals(IdPool[1]) < MaxRetrievals
        /\ Accept(s, e)

NextCount ==
    \/ ArriveCount
    \/ Get
    \/ Set
    \/ Send
    \/ Done

SpecCount == InitFrom(CountStores) /\ [][NextCount]_vars

----------------------------------------------------------------------------
(* The minimal worker: src/unnamed/part_000 and src/workers.js.  One fetch *)
(* handles /start, /help and /save over the namespace FILE_STORE, whose    *)
(* keys are "post:<postId>"; there are no sessions and no index lists.     *)
(* The two files differ in the post id that /start looks up.               *)

ADMIN_ID == "a"

\* Date.now().toString() at the ticks of the model's clock
Millis == <<"1700000000000", "1700000000001", "1700000000002", "1700000000003">>

DateNowString(t) == Millis[t + 1]

PostKey(postId) == <<"post:", postId>>

\* text.startsWith("/" + word), on the texts of the input alphabet
StartsWith(text, word) ==
    text # None /\ text[1].pre = "" /\ text[1].slash /\ text[1].word = word

\* text.match(/post=(\S+)/): None, or the array [whole match, group 1]
MatchPost(text) ==
    IF text # None /\ text[1].key = "post=" /\ text[1].val # ""
    THEN Some(<<"post=" \o text[1].val, text[1].val>>)
    ELSE None

\* the postId of /start: match[1] in part_000; in workers.js the array
\* itself, which the template literal joins with a comma
PostIdOf(variant, match) ==
    IF variant = "part_000" THEN match[2] ELSE match[1] \o "," \o match[2]

\* /save: fileId and fileType of the replied message; None when it holds
\* no document, photo or video
MinFileOf(att) ==
    IF att # None /\ att[1].kind \in {"document", "photo", "video"}
    THEN Some([file_id |-> att[1].file_id, file_type |-> att[1].kind,
               caption |-> att[1].caption])
    ELSE None

\* /start: the send chosen by meta.file_type
MinSend(chatId, meta) ==
    IF meta.file_type \in {"document", "photo", "video"}
    THEN sendFile(SendMethodOf(meta.file_type), chatId, meta.file_id, meta.caption)
    ELSE sendMessage(chatId, "Unsupported file type.")

\* one invocation of the minimal fetch
MinHandler(e, variant) ==
    [ev |-> e, variant |-> variant, pc |-> <<>>, resp |-> "", calls |-> <<>>,
     postId |-> "",           \* /start: postId;  /save: postId
     meta |-> None,           \* /save: meta
     at |-> 0,                \* history: the time at which the request arrived
     before |-> <<>>]         \* history: the namespace when the request arrived

MinFree == [MinHandler(NoEvent, "") EXCEPT !.resp = "free"]

\* fetch from request.json() to its first await, at time t
MinStart(e, variant, t) ==
    LET h == MinHandler(e, variant)
        chatId == e.from
    IN IF StartsWith(e.text, "start")
       THEN (IF MatchPost(e.text) # None
             THEN [h EXCEPT !.postId = PostIdOf(variant, MatchPost(e.text)[1]),
                            !.pc = <<F("fs_get")>>]
             ELSE Reply(h, sendMessage(chatId, "Welcome to FileStore Bot!")))
       ELSE IF StartsWith(e.text, "help")
       THEN Reply(h, sendMessage(chatId, "Help Menu"))
       ELSE IF StartsWith(e.text, "save")
       THEN (IF e.from # ADMIN_ID
             THEN Reply(h, sendMessage(chatId, "Unauthorized. Only the admin can save files."))
             ELSE IF e.reply = None
             THEN Reply(h, sendMessage(chatId, "Please reply to a file message with /save"))
             ELSE IF MinFileOf(e.reply[1]) = None
             THEN Reply(h, sendMessage(chatId, "Unsupported file type for saving."))
             ELSE [h EXCEPT !.postId = DateNowString(t),
                            !.meta = MinFileOf(e.reply[1]),
                            !.pc = <<F("fs_put"),
                                     Tg(WithLink(sendMessage(chatId, "File Saved Successfully!"),
                                                 "https://t.me/" \o BOT_USERNAME
                                                     \o "?start=post=" \o DateNowString(t)))>>])
       ELSE Reply(h, sendMessage(chatId, "Command not recognized."))

MinQuiet == \A s \in Slots : inflight[s] = MinFree

\* an update arrives at the deployed file; it takes the first free slot
MinArrive(variant, updates) ==
    \E s \in Slots, e \in updates :
        /\ inflight[s] = MinFree
        /\ \A t \in 1..(s - 1) : inflight[t] # MinFree
        /\ inflight' = [inflight EXCEPT
                            ![s] = [MinStart(e, variant, now) EXCEPT
                                       !.at = now,
                                       !.before = IF MinQuiet THEN kv ELSE <<>>]]
        /\ UNCHANGED <<kv, nextId, now, hits, gone>>

\* env.FILE_STORE.get resolves: the file is sent, or reported missing
MinGet(s) ==
    LET h == inflight[s]
        fileData == DbGet(kv, PostKey(h.postId))
    IN /\ h.resp = "" /\ h.pc # <<>> /\ Op(h) = "fs_get"
       /\ inflight' = [inflight EXCEPT
                           ![s] = IF fileData # None
                                  THEN Reply(h, MinSend(h.ev.from, fileData[1]))
                                  ELSE Reply(h, sendMessage(h.ev.from, "No file found for post ID"))]
       /\ UNCHANGED <<kv, nextId, now, hits, gone>>

\* a faulty put: a record already stored under the key is kept
MinPutKeeping(s) ==
    LET h == inflight[s] IN
    /\ h.resp = "" /\ h.pc # <<>> /\ Op(h) = "fs_put"
    /\ kv' = IF PostKey(h.postId) \in DOMAIN kv THEN kv
             ELSE DbSet(kv, PostKey(h.postId), h.meta[1])
    /\ inflight' = [inflight EXCEPT ![s] = Pop(h)]
    /\ UNCHANGED <<nextId, now, hits, gone>>

\* env.FILE_STORE.put resolves
MinPut(s) ==
    LET h == inflight[s] IN
    /\ h.resp = "" /\ h.pc # <<>> /\ Op(h) = "fs_put"
    /\ kv' = DbSet(kv, PostKey(h.postId), h.meta[1])
    /\ inflight' = [inflight EXCEPT ![s] = Pop(h)]
    /\ UNCHANGED <<nextId, now, hits, gone>>

\* callTelegramApi: fetch resolves with a response, which is returned
\* unread, or rejects, and the rejection leaves the worker's fetch
MinCall(s) ==
    LET h == inflight[s] IN
    /\ h.resp = "" /\ h.pc # <<>> /\ Op(h) = "tg"
    /\ \E ok \in BOOLEAN :
          LET h1 == [h EXCEPT !.calls = Append(@, [call |-> Head(h.pc).call, ok |-> ok])]
          IN inflight' = [inflight EXCEPT
                              ![s] = [h1 EXCEPT !.pc = <<>>,
                                                !.resp = IF ok THEN "OK" ELSE "exception"]]
    /\ UNCHANGED <<kv, nextId, now, hits, gone>>

\* the outcome of fetch has been delivered
MinRespond(s) ==
    /\ inflight[s].resp \notin {"", "free"}
    /\ inflight' = [inflight EXCEPT ![s] = MinFree]
    /\ UNCHANGED <<kv, nextId, now, hits, gone>>

MinInit ==
    /\ kv = <<>>
    /\ inflight = [s \in Slots |-> MinFree]
    /\ nextId = 1
    /\ now = 0
    /\ hits = [id \in Range(IdPool) |-> 0]
    /\ gone = {}

MinTexts ==
    {Cmd("start"), Cmd("help"), Cmd("Start")}
    \cup {Some(Txt(TRUE, "start", "", "post=", DateNowString(t))) : t \in 0..MaxClock}

MinUpdates ==
    {Message(u, t, None, None) : u \in Users, t \in MinTexts}
    \cup {Message(u, Cmd("save"), None, r) :
             u \in Users, r \in {None, Some(Some(Doc)), Some(Some(Photo)), Some(Some(Sticker))}}

MinNext(variant) ==
    \/ MinArrive(variant, MinUpdates)
    \/ \E s \in Slots : MinGet(s)
    \/ \E s \in Slots : MinPut(s)
    \/ \E s \in Slots : MinCall(s)
    \/ \E s \in Slots : MinRespond(s)
    \/ Tick

\* src/unnamed/part_000 deployed
SpecMin == MinInit /\ [][MinNext("part_000")]_vars

\* src/workers.js deployed
SpecMinW == MinInit /\ [][MinNext("workers.js")]_vars

\* the request is a /save of the minimal worker that has built its meta
MinSaves(h) == h.resp # "free" /\ h.meta # None

\* C31: in the minimal worker the id of a saved file is the text of the
\* clock when /save is handled and nothing else, so two /save handled at the
\* same millisecond have the same id; and the put of /save stores its meta
\* under post:<id> whatever is stored there, leaving the other keys alone,
\* so of two such saves the later put replaces the record of the earlier
C31_TimestampIdsCollide ==
    /\ [](\A s \in Slots :
            MinSaves(inflight[s])
            => /\ inflight[s].postId = DateNowString(inflight[s].at)
               /\ \A t \in Slots :
                     (MinSaves(inflight[t]) /\ inflight[t].at = inflight[s].at)
                     => inflight[t].postId = inflight[s].postId)
    /\ [][\A s \in Slots :
            LET h == inflight[s] IN
            (/\ MinSaves(h) /\ h.pc # <<>> /\ Op(h) = "fs_put"
             /\ inflight'[s] # h)
            => /\ DOMAIN kv' = DOMAIN kv \cup {PostKey(h.postId)}
               /\ kv'[PostKey(h.postId)] = h.meta[1]
               /\ \A k \in DOMAIN kv \ {PostKey(h.postId)} : kv'[k] = kv[k]]_vars

\* C31 witness: /save on a document and /save on a photo were handled at the
\* same millisecond; both were answered with the same link, and the one
\* record stored is the photo's
C31_Witness ==
    \E s, t \in Slots :
        LET h == inflight[s]
            g == inflight[t]
        IN /\ s # t /\ h.resp = "OK" /\ g.resp = "OK"
           /\ MinSaves(h) /\ MinSaves(g) /\ h.at = g.at
           /\ h.meta[1].file_type = "document" /\ g.meta[1].file_type = "photo"
           /\ Last(h.calls).call.link = Last(g.calls).call.link
           /\ Last(h.calls).call.text = "File Saved Successfully!"
           /\ DOMAIN kv = {PostKey(h.postId)}
           /\ kv[PostKey(h.postId)].file_type = "photo"

\* the request is a "/start post=<id>" waiting for env.FILE_STORE.get
MinRetrieves(h) ==
    /\ h.resp = "" /\ h.pc # <<>> /\ Op(h) = "fs_get"
    /\ StartsWith(h.ev.text, "start") /\ MatchPost(h.ev.text) # None

\* the <id> of "/start post=<id>"
MinAskedId(h) == h.ev.text[1].val

\* C32: in src/workers.js, when a /save has stored a meta under post:<id>,
\* a message "/start post=<id>" reads the key post:<id> and sends the
\* stored file with the method of its file_type; it does not answer that
\* no file was found
C32_StartReadsWhatSaveWrote ==
    [][\A s \in Slots :
          LET h == inflight[s] IN
          (/\ MinRetrieves(h) /\ inflight'[s] # h
           /\ PostKey(MinAskedId(h)) \in DOMAIN kv)
          => /\ h.postId = MinAskedId(h)
             /\ inflight'[s].pc
                   = <<Tg(MinSend(h.ev.from, kv[PostKey(MinAskedId(h))]))>>]_vars

\* C33: with ADMIN_IDS fixed, the session of every user outside ADMIN_IDS is
\* in state idle in every reachable state, whatever that user and the
\* administrators send and however their requests interleave
C33_NonAdminsStayIdle ==
    \A u \in Users \ ADMIN_IDS : StateOf(kv, u) = "idle"

\* C33 witness: the ordinary user has a stored session, and its /delete of
\* an existing record, sent while the administrator was being asked to
\* confirm a deletion, has been refused
C33_Witness ==
    \E s \in Slots :
        LET h == inflight[s] IN
        /\ h.resp = "OK" /\ h.ev = Message("u", CmdArg("delete", IdPool[1]), None, None)
        /\ Last(h.calls).call.text = "You don't have permission to delete this file."
        /\ SessionKey("u") \in DOMAIN kv
        /\ StateOf(kv, "a") = "awaiting_delete_confirm"

\* a saveFile or a deleteFile of the request has awaits left
InFileWrites(h) ==
    /\ Running(h)
    /\ \E i \in DOMAIN h.pc :
          h.pc[i].op \in {"sf_put", "sf_getU", "sf_setU", "sf_getC", "sf_setC",
                          "df_get", "df_del", "df_getU", "df_setU", "df_getC", "df_setC"}

\* the record is named by its owner's index list and by its category's
Indexed(store, id) ==
    LET f == store[FileKey(id)] IN
    /\ id \in Range(OrEmpty(DbGet(store, UserFilesKey(f.savedBy))))
    /\ id \in Range(OrEmpty(DbGet(store, CategoryKey(f.category))))

\* C34: whenever no saveFile and no deleteFile call is between its first and
\* its last await, the id of every stored record is in its owner's index list
\* and in its category's index list, also when saves of one owner into one
\* category are handled concurrently
C34_EveryRecordIsIndexed ==
    (\A s \in Slots : ~InFileWrites(inflight[s]))
    => \A id \in StoredIds(kv) : Indexed(kv, id)

\* C35: one pending upload produces at most one record, also when two
\* category choices of the same user (a button pressed twice, a button and a
\* typed category) are handled concurrently
C35_OneUploadOneRecord ==
    Cardinality(StoredIds(kv)) <= 1

\* C36: for as long as a record exists, its accessCount is a non-negative
\* integer that no step decreases, however the retrievals of the record
\* that are handled concurrently interleave
C36_AccessCountNeverDecreases ==
    /\ [](\A id \in StoredIds(kv) : kv[FileKey(id)].accessCount \in Nat)
    /\ [][\A id \in StoredIds(kv) \cap StoredIds(kv') :
            kv'[FileKey(id)].accessCount >= kv[FileKey(id)].accessCount]_vars

\* the callback_data of the bot's keyboards, split at ":"
ButtonDatas ==
    {<<"category", c>> : c \in {"documents", "photos", "videos", "audio", "cancel"}}
    \cup {<<"file", a, id>> : a \in {"share", "delete"}, id \in Range(IdPool)}
    \cup {<<"confirm", "delete", id>> : id \in Range(IdPool)}
    \cup {<<"page", "files", ToString(q)>> : q \in 0..5}
    \cup {<<"file", "list", "1">>, <<"confirm", "cancel">>, <<"stats", "view">>,
          <<"help", "view">>}

\* Array.prototype.join(":")
Join(parts) ==
    IF Len(parts) = 2 THEN parts[1] \o ":" \o parts[2]
    ELSE parts[1] \o ":" \o parts[2] \o ":" \o parts[3]

\* data.split(":") of a button of the bot
Split(data) == CHOOSE parts \in ButtonDatas : Join(parts) = data

\* C37: every button the bot has put on a keyboard carries a callback_data
\* whose action is registered in callbackHandlers, and the press of such a
\* button is never answered with the could-not-process fallback
C37_IssuedButtonsAreRegistered ==
    \A s \in Slots :
        LET h == inflight[s] IN
        /\ \A i \in DOMAIN h.calls :
              \A b \in Range(h.calls[i].call.kb) : Split(b)[1] \in CallbackHandlers
        /\ (h.ev.type = "callback" /\ h.ev.data # None /\ h.ev.data[1] \in ButtonDatas)
           => \A i \in DOMAIN h.calls :
                 h.calls[i].call.text # "Sorry, I couldn't process this action."

\* C38: the handling of an event sent by one user never creates, modifies
\* or deletes the session document of another user: every step that changes
\* the session document of a user is a step of a request sent by that user,
\* whatever the event and however the requests interleave
C38_SessionsAreOwn ==
    [][\A b \in Users :
          DbGet(kv', SessionKey(b)) # DbGet(kv, SessionKey(b))
          => \E s \in Slots : /\ inflight'[s] # inflight[s]
                               /\ inflight[s].ev.from = b]_vars

\* C38 witness: the ordinary user's photo and the administrator's /delete
\* were handled at the same time; each has its own session document, the
\* administrator's asking for the confirmation, the user's idle
C38_Witness ==
    \E s, t \in Slots :
        /\ inflight[s].resp = "OK" /\ inflight[t].resp = "OK"
        /\ inflight[s].ev = Message("u", None, Some(Photo), None)
        /\ inflight[t].ev = Message("a", CmdArg("delete", IdPool[1]), None, None)
        /\ inflight[s].before = <<>>
        /\ SessionKey("u") \in DOMAIN kv /\ SessionKey("a") \in DOMAIN kv
        /\ kv[SessionKey("u")].userId = "u" /\ kv[SessionKey("u")].state = "idle"
        /\ kv[SessionKey("a")].userId = "a"
        /\ kv[SessionKey("a")].state = "awaiting_delete_confirm"
        /\ kv[SessionKey("a")].data = [fileId |-> IdPool[1]]

\* the record without its two counters
SavedFields(file) == [k \in DOMAIN file \ {"accessCount", "lastAccessed"} |-> file[k]]

\* the request is inside trackFileAccess
Tracking(h) == Running(h) /\ h.pc # <<>> /\ Op(h) \in {"ta_get", "ta_set"}

\* C39: between its creation and its deletion no step changes a field of a
\* record other than accessCount and lastAccessed, and a step of
\* trackFileAccess(id) writes nothing but the record of id: every other
\* record and every index list stays as it was
C39_OnlyCountersChange ==
    [][/\ \A id \in StoredIds(kv) \cap StoredIds(kv') :
             SavedFields(kv'[FileKey(id)]) = SavedFields(kv[FileKey(id)])
       /\ \A s \in Slots :
             (Tracking(inflight[s]) /\ inflight'[s] # inflight[s])
             => \A k \in (DOMAIN kv \cup DOMAIN kv') \ {FileKey(inflight[s].tid)} :
                   DbGet(kv', k) = DbGet(kv, k)]_vars

\* C39 witness: trackFileAccess of the first of two stored records has
\* returned; that record has been counted and is otherwise as saved, and the
\* other record and the index lists are as they were
C39_Witness ==
    LET h == inflight[1] IN
    /\ h.resp = "OK" /\ h.ev = Call("trackFileAccess", [fileId |-> IdPool[1]])
    /\ StoredIds(h.before) = {IdPool[1], IdPool[2]}
    /\ kv[FileKey(IdPool[1])].accessCount = h.before[FileKey(IdPool[1])].accessCount + 1
    /\ kv[FileKey(IdPool[1])].lastAccessed # None
    /\ SavedFields(kv[FileKey(IdPool[1])]) = SavedFields(h.before[FileKey(IdPool[1])])
    /\ \A k \in DOMAIN kv \ {FileKey(IdPool[1])} : DbGet(h.before, k) = Some(kv[k])

====
